---- MODULE Spec2Model ----
(***************************************************************************)
(* PicoCore v2 mesh protocol engine: CRC-8 codec, packet codec, RingBuffer *)
(* and the Mesh session, modelled from src/src/v2/core.                    *)
(*                                                                         *)
(* Bytes are integers 0..255, byte strings are sequences of bytes, indexed *)
(* from 1 (Python index i is TLA+ index i + 1).  A Python call that raises *)
(* is modelled by a result record whose kind is "raise".                   *)
(***************************************************************************)
EXTENDS Integers, Sequences, FiniteSets, TLC

VARIABLES
    c_args,     \* packet codec: the arguments handed to build_packet
    c_frame,    \* packet codec: the frame under test (a byte string)
    c_built,    \* packet codec: TRUE while c_frame is build_packet(c_args) untouched
    c_ncorrupt, \* packet codec: how often the link altered c_frame
    c_res,      \* packet codec: the result of the last parse_packet(c_frame)
    ring,       \* ring buffer under test: a RingBuffer record
    ring_ops,   \* ring buffer under test: number of calls made so far
    ring_last,  \* ring buffer under test: the last call, its arguments and outcome
    mesh,       \* mesh: the Mesh session of every node
    esp,        \* mesh: the transport object of every node, with the frames it
                \* has received and not yet handed to the session
    pc,         \* mesh: where every node's receive_task stands
    sent,       \* mesh: the frames every node handed to its transport, in order
    delivered,  \* mesh: the calls of every node's application callback, in order
    rxlast,     \* mesh: the frame every node's receive_task took last, with the
                \* error logged for it
    last,       \* mesh: the last hello / hello_ack / send_data call and its outcome
    ncalls,     \* mesh: number of hello / hello_ack / send_data calls so far
    ninject,    \* mesh: number of frames received from outside so far
    clock,      \* mesh: for every node, ticks: what time.ticks_ms() returns on
                \* its board; open: its application called rx_enable and
                \* neither rx_disable nor stop since; listen, age: the
                \* listen_ms of its last rx_enable call and the milliseconds
                \* gone by since that call
    root,       \* scheduler: the Root of every board, with the sleep its last
                \* sleep() took
    bus         \* event bus: the global PubSub, with the last call made on it

codecVars == <<c_args, c_frame, c_built, c_ncorrupt, c_res>>

ringVars == <<ring, ring_ops, ring_last>>

meshVars == <<mesh, esp, pc, sent, delivered, rxlast, last, ncalls, ninject, clock>>

sysVars == <<root, bus>>

vars == <<c_args, c_frame, c_built, c_ncorrupt, c_res, ring, ring_ops, ring_last,
          mesh, esp, pc, sent, delivered, rxlast, last, ncalls, ninject, clock,
          root, bus>>

(***************************************************************************)
(* Integer helpers standing for Python's bit operators on small ints.      *)
(***************************************************************************)
RECURSIVE BitXor(_, _)
BitXor(a, b) ==
    IF a = 0 THEN b
    ELSE IF b = 0 THEN a
    ELSE (((a % 2) + (b % 2)) % 2) + 2 * BitXor(a \div 2, b \div 2)

RECURSIVE BitAnd(_, _)
BitAnd(a, b) ==
    IF a = 0 \/ b = 0 THEN 0
    ELSE ((a % 2) * (b % 2)) + 2 * BitAnd(a \div 2, b \div 2)

RECURSIVE BitOr(_, _)
BitOr(a, b) ==
    IF a = 0 THEN b
    ELSE IF b = 0 THEN a
    ELSE (IF a % 2 = 1 \/ b % 2 = 1 THEN 1 ELSE 0) + 2 * BitOr(a \div 2, b \div 2)

\* Python slice s[i:j] with 0 <= i, given in Python (0-based) indices.
Slice(s, i, j) ==
    LET hi == IF j > Len(s) THEN Len(s) ELSE j
    IN  IF i >= hi THEN <<>> ELSE SubSeq(s, i + 1, hi)

(***************************************************************************)
(* comms/constants.py                                                      *)
(***************************************************************************)
\* struct.calcsize("<BBHHHBBB"): version, type, src, dst, seq, ttl, flags, plen
BASE_HEADER_SIZE_NO_CRC == 1 + 1 + 2 + 2 + 2 + 1 + 1 + 1
CRC8_SIZE == 2
MESH_VERSION == 1
ESPNOW_MAX_PAYLOAD_SIZE == 250
\* the payload limit without the header and checksum taken off
MAX_PAYLOAD_SIZE_no_overhead == ESPNOW_MAX_PAYLOAD_SIZE

MAX_PAYLOAD_SIZE == ESPNOW_MAX_PAYLOAD_SIZE - (BASE_HEADER_SIZE_NO_CRC + CRC8_SIZE)

MESH_TYPE_HELLO == 1
MESH_TYPE_HELLO_ACK == 2
MESH_TYPE_DATA == 3
MESH_TYPE_ACK == 4
MESH_TYPE_CTRL == 5

MESH_FLAG_ACK == 1
MESH_FLAG_BCAST == 2
MESH_FLAG_UNICAST == 4
MESH_FLAG_UNSECURE == 128

BROADCAST_ADDR == 65535
UNDEFINED_NODE_ID == 0
BROADCAST_ADDR_MAC == <<255, 255, 255, 255, 255, 255>>

(***************************************************************************)
(* comms/crc8.py                                                           *)
(***************************************************************************)
DEFAULT_POLY == 7
DEFAULT_INIT == 0

\* one round of the bitwise loop of _make_table
CrcShift(crc, poly) ==
    IF BitAnd(crc, 128) # 0
    THEN BitXor((crc * 2) % 256, poly) % 256
    ELSE (crc * 2) % 256

RECURSIVE CrcRounds(_, _, _)
CrcRounds(crc, poly, n) ==
    IF n = 0 THEN crc ELSE CrcRounds(CrcShift(crc, poly), poly, n - 1)

make_table(poly) == [i \in 0..255 |-> CrcRounds(i, poly, 8)]

\* the table made for the polynomial 0: every entry is 0
TABLE_poly_0 == make_table(0)

TABLE == make_table(DEFAULT_POLY)

RECURSIVE CrcLoop(_, _, _)
CrcLoop(data, k, crc) ==
    IF k > Len(data) THEN crc
    ELSE CrcLoop(data, k + 1, TABLE[BitXor(crc, data[k])])

crc8(data) == CrcLoop(data, 1, DEFAULT_INIT % 256)

\* append_crc8_to_bytes: a new bytes object, buf + bytes([crc8(buf)])
append_crc8_to_bytes(buf) == buf \o <<crc8(buf)>>

\* append_crc8_to_bytearray: buf.append(crc8(buf)), in place
append_crc8_to_bytearray(buf) == Append(buf, crc8(buf))

\* verify_crc8 with the checksum taken over the whole buffer, last byte included
verify_crc8_whole(data_with_crc) ==
    IF Len(data_with_crc) < 1 THEN FALSE
    ELSE crc8(data_with_crc) = data_with_crc[Len(data_with_crc)]

verify_crc8(data_with_crc) ==
    IF Len(data_with_crc) < 1 THEN FALSE
    ELSE LET expected == data_with_crc[Len(data_with_crc)]
             crc == crc8(SubSeq(data_with_crc, 1, Len(data_with_crc) - 1))
         IN  crc = expected

(***************************************************************************)
(* comms/mesh/packets.py                                                   *)
(***************************************************************************)
Raise(exc) == [kind |-> "raise", exc |-> exc]
Invalid == [kind |-> "invalid"]

\* struct.pack("<BBHHHBBB", ...): B is one byte, H two bytes, low byte first
PackH(x) == <<x % 256, x \div 256>>
UnpackH(s, k) == s[k] + 256 * s[k + 1]

\* struct_pack with the 16-bit fields written high byte first
struct_pack_big_endian(version, ptype, src, dst, seq, ttl, flags, plen) ==
    <<version, ptype, src \div 256, src % 256, dst \div 256, dst % 256,
      seq \div 256, seq % 256, ttl, flags, plen>>

struct_pack(version, ptype, src, dst, seq, ttl, flags, plen) ==
    <<version, ptype>> \o PackH(src) \o PackH(dst) \o PackH(seq) \o <<ttl, flags, plen>>

\* struct.unpack("<BBHHHBBB", header); raises unless header has exactly the
\* format's size in bytes
struct_unpack(header) ==
    IF Len(header) # BASE_HEADER_SIZE_NO_CRC THEN Raise("ValueError")
    ELSE [kind |-> "fields",
          version |-> header[1], ptype |-> header[2],
          src |-> UnpackH(header, 3), dst |-> UnpackH(header, 5),
          seq |-> UnpackH(header, 7),
          ttl |-> header[9], flags |-> header[10], plen |-> header[11]]

\* build_packet: the frame, or AssertionError for an out-of-range field
build_packet(ptype, src, dst, seq, ttl, flags, payload) ==
    LET version == MESH_VERSION
        plen == Len(payload)
    IN  IF ~ (/\ 0 <= version /\ version <= 255
              /\ 0 <= ptype /\ ptype <= 255
              /\ 0 <= src /\ src <= 65535
              /\ 0 <= dst /\ dst <= 65535
              /\ 0 <= seq /\ seq <= 65535
              /\ 0 <= ttl /\ ttl <= 255
              /\ 0 <= flags /\ flags <= 255
              /\ plen <= 255)
        THEN Raise("AssertionError")
        ELSE [kind |-> "bytes",
              data |-> append_crc8_to_bytearray(
                           struct_pack(version, ptype, src, dst, seq, ttl, flags, plen))
                       \o payload]

\* _checks without the version comparison
checks_no_version(version, plen, plen_check) == plen = plen_check

checks(version, plen, plen_check) == version = MESH_VERSION /\ plen = plen_check

\* parse_packet: a packet record, Invalid (Python None), or the exception raised
parse_packet(packet) ==
    LET header_crc8 == Slice(packet, 0, BASE_HEADER_SIZE_NO_CRC + 1)
    IN  IF ~ verify_crc8(header_crc8) THEN Invalid
        ELSE LET header == SubSeq(header_crc8, 1, Len(header_crc8) - 1)
                 payload == Slice(packet, BASE_HEADER_SIZE_NO_CRC + 1, Len(packet))
                 f == struct_unpack(header)
             IN  IF f.kind = "raise" THEN f
                 ELSE IF ~ checks(f.version, f.plen, Len(payload)) THEN Invalid
                 ELSE [kind |-> "packet",
                       version |-> f.version, ptype |-> f.ptype, src |-> f.src,
                       dst |-> f.dst, seq |-> f.seq, ttl |-> f.ttl,
                       flags |-> f.flags, plen |-> f.plen, payload |-> payload]

\* packets.py imports the chunk markers from comms/constants.py, which does
\* not set them; they are taken to be the three bits above the base set.
MESH_FLAG_PARTIAL_START == 256
MESH_FLAG_PARTIAL == 512
MESH_FLAG_PARTIAL_END == 1024

\* chunk_packet, consumed to its end: [frames: the frames yielded, exc: the
\* exception that ended the iteration, if any].  The first statement of the
\* generator, `_payload < MAX_PAYLOAD_SIZE`, orders the payload (str, bytes
\* or bytearray) against an int; Python has no such ordering and raises
\* TypeError, so the first next() raises before anything is yielded and the
\* loop over the pieces is never entered.
chunk_packet(ptype, src, dst, seq, ttl, flags, payload) ==
    [kind |-> "chunks", frames |-> <<>>, exc |-> "TypeError"]

(***************************************************************************)
(* queue.py: RingBuffer.  A buffer is a record [cap, overwrite, buf, head, *)
(* tail, count]; buf maps the slots 0..cap-1 to an item or None.  Every    *)
(* method is an operator from the buffer (and arguments) to                *)
(* [rb: the buffer afterwards, exc: "none" or the exception raised,        *)
(*  ret: the value returned].  The items stored are non-empty tuples (a    *)
(* neighbor entry, a hardware address, a numbered test item); Python's     *)
(* None is the tuple without fields.                                       *)
(***************************************************************************)
None == <<>>

RingBuffer(capacity, overwrite) ==
    [cap |-> capacity, overwrite |-> overwrite,
     buf |-> [i \in 0..(capacity - 1) |-> None],
     head |-> 0, tail |-> 0, count |-> 0]

\* self._mask is set when the capacity is a power of two
HasMask(rb) == BitAnd(rb.cap, rb.cap - 1) = 0

inc(rb, idx) ==
    IF HasMask(rb) THEN BitAnd(idx + 1, rb.cap - 1)
    ELSE IF idx + 1 >= rb.cap THEN idx + 1 - rb.cap ELSE idx + 1

Done(rb) == [rb |-> rb, exc |-> "none", ret |-> None]
Fail(rb, e) == [rb |-> rb, exc |-> e, ret |-> None]

\* put that does not take the dropped item off the count
put_no_drop(rb, item) ==
    IF rb.count = rb.cap /\ ~ rb.overwrite THEN Fail(rb, "IndexError")
    ELSE LET r1 == IF rb.count = rb.cap
                   THEN [rb EXCEPT !.tail = inc(rb, rb.tail)]
                   ELSE rb
         IN  Done([r1 EXCEPT !.buf[r1.head] = item,
                             !.head = inc(r1, r1.head),
                             !.count = r1.count + 1])

put(rb, item) ==
    IF rb.count = rb.cap /\ ~ rb.overwrite THEN Fail(rb, "IndexError")
    ELSE LET r1 == IF rb.count = rb.cap
                   THEN [rb EXCEPT !.tail = inc(rb, rb.tail), !.count = rb.count - 1]
                   ELSE rb
         IN  Done([r1 EXCEPT !.buf[r1.head] = item,
                             !.head = inc(r1, r1.head),
                             !.count = r1.count + 1])

\* put_index that counts the index from slot 0 instead of from the oldest item
put_index_from_zero(rb, index, item) ==
    IF index < 0 \/ index > rb.count THEN Fail(rb, "IndexError")
    ELSE Done([rb EXCEPT !.buf[index % rb.cap] = item])

put_index(rb, index, item) ==
    IF index < 0 \/ index > rb.count THEN Fail(rb, "IndexError")
    ELSE LET pos == (rb.tail + index) % rb.cap
         IN  Done([rb EXCEPT !.buf[pos] = item])

\* put_list: put every item; the first IndexError ends the call and is raised
RECURSIVE put_list(_, _)
put_list(rb, items) ==
    IF items = <<>> THEN Done(rb)
    ELSE LET r == put(rb, Head(items))
         IN  IF r.exc # "none" THEN r ELSE put_list(r.rb, Tail(items))

\* extend: put every item; the first IndexError ends the loop silently
RECURSIVE extend(_, _)
extend(rb, iterable) ==
    IF iterable = <<>> THEN Done(rb)
    ELSE LET r == put(rb, Head(iterable))
         IN  IF r.exc # "none" THEN Done(r.rb) ELSE extend(r.rb, Tail(iterable))

get(rb) ==
    IF rb.count = 0 THEN Fail(rb, "IndexError")
    ELSE [rb |-> [rb EXCEPT !.buf[rb.tail] = None,
                            !.tail = inc(rb, rb.tail),
                            !.count = rb.count - 1],
          exc |-> "none", ret |-> rb.buf[rb.tail]]

peek(rb, index) ==
    IF index < 0 \/ index >= rb.count THEN Fail(rb, "IndexError")
    ELSE LET pos == IF HasMask(rb) THEN BitAnd(rb.tail + index, rb.cap - 1)
                    ELSE IF rb.tail + index >= rb.cap
                         THEN rb.tail + index - rb.cap
                         ELSE rb.tail + index
         IN  [rb |-> rb, exc |-> "none", ret |-> rb.buf[pos]]

peek_latest(rb) ==
    IF rb.count = 0 THEN Fail(rb, "IndexError") ELSE peek(rb, rb.count - 1)

clear(rb, keep_memory) ==
    Done([rb EXCEPT !.buf = IF keep_memory THEN rb.buf
                             ELSE [i \in 0..(rb.cap - 1) |-> None],
                    !.head = 0, !.tail = 0, !.count = 0])

\* a shifting loop that moves nothing
ShiftDown_nothing(rb, buf, i) == buf

\* the shifting loop of clear_index: for i in range(index, count - 1)
RECURSIVE ShiftDown(_, _, _)
ShiftDown(rb, buf, i) ==
    IF i >= rb.count - 1 THEN buf
    ELSE LET curr_pos == (rb.tail + i) % rb.cap
             next_pos == (rb.tail + i + 1) % rb.cap
         IN  ShiftDown(rb, [buf EXCEPT ![curr_pos] = buf[next_pos]], i + 1)

clear_index(rb, index) ==
    IF index < 0 \/ index >= rb.count THEN Fail(rb, "IndexError")
    ELSE LET shifted == ShiftDown(rb, rb.buf, index)
             last_pos == (rb.tail + rb.count - 1) % rb.cap
             count2 == rb.count - 1
         IN  Done([rb EXCEPT !.buf = [shifted EXCEPT ![last_pos] = None],
                             !.count = count2,
                             !.head = IF count2 > 0
                                      THEN (rb.head - 1) % rb.cap
                                      ELSE 0])

\* to_list / __iter__: the count items from tail on, oldest first
RECURSIVE ListFrom(_, _, _)
ListFrom(rb, idx, n) ==
    IF n = 0 THEN <<>>
    ELSE <<rb.buf[idx]>> \o ListFrom(rb, inc(rb, idx), n - 1)

to_list(rb) == ListFrom(rb, rb.tail, rb.count)

\* item in rb: Python walks __iter__ and compares each element with item
Contains(rb, item) == \E k \in 1..rb.count : to_list(rb)[k] = item


(***************************************************************************)
(* comms/mesh/main.py: class Mesh.  A session is a record of the fields of *)
(* Mesh; the transport object self._esp (AIOESPNow) is the record esp[n].  *)
(* A neighbor entry is the tuple                                           *)
(*   <<node_id, mac, version, seq, ts, rssi, gateway>>.                    *)
(* Mesh() itself calls self._esp.set_pmk on the still missing transport    *)
(* whenever str(conf.get(MESH_SECRET)) is not empty; the sessions modelled *)
(* are those whose construction returned.                                  *)
(***************************************************************************)
\* constants.py sets MAX_NEIGHBORS = 32; the registries modelled are smaller,
\* so that a few frames fill them
MAX_NEIGHBORS == 2

DEFAULT_TTL == 10

\* main.py imports MESH_FLAG_GATEWAY from comms/constants.py, which does not
\* set it; it is taken to be one bit of the flags byte. Only the last field
\* of a neighbor entry depends on it.
MESH_FLAG_GATEWAY == 8

EmptyIndex == [x \in {} |-> 0]

Mesh ==
    [sequence |-> 0, ttl |-> DEFAULT_TTL, node_id |-> UNDEFINED_NODE_ID,
     on_recv |-> FALSE, cb_raises |-> FALSE, raw |-> FALSE,
     started |-> FALSE, wlan |-> FALSE,
     neighbors |-> RingBuffer(MAX_NEIGHBORS, TRUE),
     peers |-> RingBuffer(MAX_NEIGHBORS, TRUE),
     neighbor_index |-> EmptyIndex,
     receiving |-> FALSE, rx_enabled |-> FALSE, rx_expected_until |-> 0]

\* self._esp before start(): None
NoEsp == [obj |-> FALSE, active |-> FALSE, peers |-> {}, rxq |-> <<>>]

\* AIOESPNow(): a new transport object, no peer registered with it
AIOESPNow == [obj |-> TRUE, active |-> FALSE, peers |-> {}, rxq |-> <<>>]

\* _up_sequence with the wrap test one too late
up_sequence_late_wrap(m) ==
    [m EXCEPT !.sequence = IF m.sequence > 65535 THEN 0 ELSE m.sequence + 1]

up_sequence(m) ==
    [m EXCEPT !.sequence = IF m.sequence + 1 > 65535 THEN 0 ELSE m.sequence + 1]

\* node_id(mac): (mac[4] << 8) | mac[5]
node_id_of(mac) == BitOr(mac[5] * 256, mac[6])

\* node_id(): the cached id, computed from the WLAN's mac on first use;
\* self._wlan is None before start(), and None.config raises
node_id(m, own_mac) ==
    IF m.node_id # UNDEFINED_NODE_ID THEN [m |-> m, exc |-> "none", ret |-> m.node_id]
    ELSE IF ~ m.wlan THEN [m |-> m, exc |-> "AttributeError", ret |-> 0]
    ELSE [m |-> [m EXCEPT !.node_id = node_id_of(own_mac)],
          exc |-> "none", ret |-> node_id_of(own_mac)]

\* node_id == entry inside `node_id in self._neighbors`: Python compares the
\* int with each stored entry, a tuple, and an int never equals a tuple
IntEqEntry(n, entry) == FALSE

is_neighbor(m, n) ==
    \E k \in 1..m.neighbors.count : IntEqEntry(n, to_list(m.neighbors)[k])

\* _get_neighbour: [exc, found, ret]; found is FALSE where Python returns None
get_neighbour(m, n) ==
    IF ~ is_neighbor(m, n) THEN [exc |-> "none", found |-> FALSE, ret |-> None]
    ELSE IF n \notin DOMAIN m.neighbor_index
    THEN [exc |-> "KeyError", found |-> FALSE, ret |-> None]
    ELSE LET r == peek(m.neighbors, m.neighbor_index[n])
         IN  [exc |-> r.exc, found |-> r.exc = "none", ret |-> r.ret]

add_neighbor(m, entry) ==
    LET r == put(m.neighbors, entry)
    IN  [m EXCEPT !.neighbors = r.rb,
                  !.neighbor_index = (entry[1] :> r.rb.count) @@ m.neighbor_index]

\* _update_neighbor: [m, exc]
update_neighbor(m, n, entry) ==
    IF n \notin DOMAIN m.neighbor_index THEN [m |-> m, exc |-> "KeyError"]
    ELSE LET r == put_index(m.neighbors, m.neighbor_index[n], entry)
         IN  [m |-> [m EXCEPT !.neighbors = r.rb], exc |-> r.exc]

\* get_rssi: self._esp.peers_table.get(mac, [0, 0]); the table is taken empty
get_rssi(mac) == <<0, 0>>

\* device_registry: [m, exc]
device_registry(m, host, src, version, seq, gateway) ==
    LET rssi == get_rssi(host)[1]
        ts == get_rssi(host)[2]
        entry == <<src, host, version, seq, ts, rssi, gateway>>
    IN  IF ~ is_neighbor(m, src)
        THEN [m |-> add_neighbor(m, entry), exc |-> "none"]
        ELSE update_neighbor(m, src, entry)

\* is_mac / _is_node_id: a peer argument is [kind |-> "id", id |-> int] or
\* [kind |-> "mac", mac |-> bytes]
is_node_id(ref) == ref.kind = "id" /\ 0 <= ref.id /\ ref.id <= 65535
is_mac(value) == value.kind = "mac" /\ Len(value.mac) = 6

\* _peer with an unknown node id sent to everybody instead of refused
peer_of_unknown_to_all(m, peer) ==
    IF is_node_id(peer)
    THEN [exc |-> "none", node_id |-> peer.id, mac |-> BROADCAST_ADDR_MAC]
    ELSE IF is_mac(peer)
    THEN [exc |-> "none", node_id |-> node_id_of(peer.mac), mac |-> peer.mac]
    ELSE [exc |-> "ValueError: Invalid peer", node_id |-> 0, mac |-> <<>>]

\* _peer: [exc, node_id, mac]
peer_of(m, peer) ==
    IF is_node_id(peer)
    THEN LET e == get_neighbour(m, peer.id)
         IN  IF e.exc # "none" THEN [exc |-> e.exc, node_id |-> 0, mac |-> <<>>]
             ELSE IF ~ e.found
             THEN [exc |-> "ValueError: Unknown node ID", node_id |-> 0, mac |-> <<>>]
             \* node_id, mac, _, _, _, _ = entry: six names for seven values
             ELSE [exc |-> "ValueError: too many values to unpack",
                   node_id |-> 0, mac |-> <<>>]
    ELSE IF is_mac(peer)
    THEN [exc |-> "none", node_id |-> node_id_of(peer.mac), mac |-> peer.mac]
    ELSE [exc |-> "ValueError: Invalid peer", node_id |-> 0, mac |-> <<>>]

\* payload_conv(payload, True): the payload in pieces of MAX_PAYLOAD_SIZE bytes
RECURSIVE payload_conv(_)
payload_conv(p) ==
    IF Len(p) = 0 THEN <<>>
    ELSE <<Slice(p, 0, MAX_PAYLOAD_SIZE)>> \o payload_conv(Slice(p, MAX_PAYLOAD_SIZE, Len(p)))

\* RingBuffer has no to_tuple method: self._neighbors.to_tuple() raises
to_tuple(rb) == Fail(rb, "AttributeError")

(***************************************************************************)
(* Mesh methods that use the transport.  Each is an operator from the      *)
(* session m and its transport e to [m, e, out, exc]: the session and      *)
(* transport afterwards, the frames handed to the transport (each          *)
(* [addr, packet, ack]) and the exception raised, if any.                  *)
(***************************************************************************)
Ok(m, e, out) == [m |-> m, e |-> e, out |-> out, exc |-> "none"]
Err(m, e, out, exc) == [m |-> m, e |-> e, out |-> out, exc |-> exc]

\* _add: register mac with the transport unless the peer cache holds it
add_peer(m, e, mac) ==
    IF ~ Contains(m.peers, mac)
    THEN [m |-> [m EXCEPT !.peers = put(m.peers, mac).rb],
          e |-> [e EXCEPT !.peers = e.peers \cup {mac}]]
    ELSE [m |-> m, e |-> e]

\* _send / _async_send; the transport's send raises OSError for an address
\* that was not registered with it
send(m, e, packet, addr, ack) ==
    IF ~ m.started THEN Err(m, e, <<>>, "RuntimeError")
    ELSE LET a == add_peer(m, e, addr)
         IN  IF addr \notin a.e.peers THEN Err(a.m, a.e, <<>>, "OSError")
             ELSE Ok(a.m, a.e, <<[addr |-> addr, packet |-> packet, ack |-> ack]>>)

rx_disable(m) == [m EXCEPT !.rx_enabled = FALSE, !.rx_expected_until = 0]

\* stop(); the transport drops what it had buffered when it is deactivated
stop(m, e) ==
    IF ~ m.started THEN [m |-> m, e |-> e]
    ELSE [m |-> [rx_disable(m) EXCEPT !.receiving = FALSE, !.started = FALSE],
          e |-> [e EXCEPT !.active = FALSE, !.rxq = <<>>]]

\* time.ticks_ms() counts modulo TICKS_PERIOD, 2^30 on the 32-bit ports of
\* MicroPython; ticks_add and ticks_diff as the time module computes them
TICKS_PERIOD == 2^30

ticks_add(t, delta) == (t + delta) % TICKS_PERIOD

ticks_diff(t1, t2) ==
    ((t1 - t2 + TICKS_PERIOD \div 2) % TICKS_PERIOD) - TICKS_PERIOD \div 2

\* the listen_ms argument of rx_enable: None, or a number of milliseconds
NoListen == [given |-> FALSE, ms |-> 0]

\* start() without the test for a session already started
start_again(m, e, own_mac) ==
    LET e1 == [AIOESPNow EXCEPT !.active = TRUE]
        a == add_peer([m EXCEPT !.wlan = TRUE], e1, BROADCAST_ADDR_MAC)
        m2 == [a.m EXCEPT !.started = TRUE]
    IN  [m |-> node_id(m2, own_mac).m, e |-> a.e]

\* start()
start(m, e, own_mac) ==
    IF m.started THEN [m |-> m, e |-> e]
    ELSE LET e1 == [AIOESPNow EXCEPT !.active = TRUE]
             a == add_peer([m EXCEPT !.wlan = TRUE], e1, BROADCAST_ADDR_MAC)
             m2 == [a.m EXCEPT !.started = TRUE]
         IN  [m |-> node_id(m2, own_mac).m, e |-> a.e]

\* rx_enable(listen_ms), called when time.ticks_ms() is now
rx_enable(m, e, own_mac, listen_ms, now) ==
    LET s == start(m, e, own_mac)
    IN  [m |-> [s.m EXCEPT !.rx_enabled = TRUE,
                           !.rx_expected_until =
                               IF listen_ms.given THEN ticks_add(now, listen_ms.ms)
                               ELSE 0],
         e |-> s.e]

\* rx_expected(), called when time.ticks_ms() is now
rx_expected(m, now) ==
    IF ~ m.rx_enabled THEN FALSE
    ELSE IF m.rx_expected_until = 0 THEN TRUE
    ELSE ticks_diff(m.rx_expected_until, now) > 0

\* hello(): _hello() then _send(packet, BROADCAST_ADDR_MAC, False)
hello(m, e, own_mac) ==
    LET m1 == up_sequence(m)
        id == node_id(m1, own_mac)
    IN  IF id.exc # "none" THEN Err(m1, e, <<>>, id.exc)
        ELSE LET b == build_packet(MESH_TYPE_HELLO, id.ret, BROADCAST_ADDR,
                                   id.m.sequence, 1,
                                   BitOr(BitOr(MESH_FLAG_BCAST, MESH_FLAG_ACK),
                                         MESH_FLAG_UNSECURE),
                                   <<>>)
             IN  IF b.kind = "raise" THEN Err(id.m, e, <<>>, b.exc)
                 ELSE send(id.m, e, b.data, BROADCAST_ADDR_MAC, FALSE)

\* hello_ack(mac): _hello_ack(mac) then _send(packet, mac, False)
hello_ack(m, e, own_mac, mac) ==
    LET m1 == up_sequence(m)
        id == node_id(m1, own_mac)
    IN  IF id.exc # "none" THEN Err(m1, e, <<>>, id.exc)
        ELSE LET b == build_packet(MESH_TYPE_HELLO_ACK, id.ret, node_id_of(mac),
                                   id.m.sequence, 1,
                                   BitOr(MESH_FLAG_UNICAST, MESH_FLAG_UNSECURE),
                                   <<>>)
             IN  IF b.kind = "raise" THEN Err(id.m, e, <<>>, b.exc)
                 ELSE send(id.m, e, b.data, mac, FALSE)

\* async_hello_ack(mac): self._neighbors.to_tuple() raises before any frame is
\* built; were it to return the tuple of entries, encode_neighbour_tuple would
\* raise on it (it unpacks one entry's seven fields and packs the first as int)
async_hello_ack(m, e, own_mac, mac) ==
    LET t == to_tuple(m.neighbors)
    IN  IF t.exc # "none" THEN Err(m, e, <<>>, t.exc)
        ELSE Err(m, e, <<>>, "ValueError")

\* the loop of send_data / async_send_data over the pieces of the payload
RECURSIVE send_pieces(_, _, _, _, _, _, _)
send_pieces(m, e, own_mac, dst, mac, pieces, out) ==
    IF pieces = <<>> THEN Ok(m, e, out)
    ELSE LET m1 == up_sequence(m)
             id == node_id(m1, own_mac)
         IN  IF id.exc # "none" THEN Err(m1, e, out, id.exc)
             ELSE LET b == build_packet(MESH_TYPE_DATA, id.ret, dst, id.m.sequence, 1,
                                        BitOr(MESH_FLAG_UNICAST, MESH_FLAG_UNSECURE),
                                        Head(pieces))
                  IN  IF b.kind = "raise" THEN Err(id.m, e, out, b.exc)
                      ELSE LET r == send(id.m, e, b.data, mac, TRUE)
                           IN  IF r.exc # "none" THEN Err(r.m, r.e, out, r.exc)
                               ELSE send_pieces(r.m, r.e, own_mac, dst, mac,
                                                Tail(pieces), out \o r.out)

\* send_data(peer, payload) / async_send_data(peer, payload)
send_data(m, e, own_mac, peer, payload) ==
    LET p == peer_of(m, peer)
    IN  IF p.exc # "none" THEN Err(m, e, <<>>, p.exc)
        ELSE send_pieces(m, e, own_mac, p.node_id, p.mac, payload_conv(payload), <<>>)

\* bytes.decode: MicroPython decodes as UTF-8 whatever encoding is named; the
\* payloads modelled are ASCII or hold a byte no UTF-8 text contains
decode(payload) ==
    IF \E k \in 1..Len(payload) : payload[k] >= 128
    THEN [exc |-> "UnicodeError", value |-> [type |-> "str", data |-> <<>>]]
    ELSE [exc |-> "none", value |-> [type |-> "str", data |-> payload]]

\* the DATA branch of _irq with the callback outside any try: whatever the
\* decoding or the callback raises leaves the handler
recv_callback_unguarded(m, host, src, payload) ==
    LET d == IF m.raw
             THEN [exc |-> "none", value |-> [type |-> "bytes", data |-> payload]]
             ELSE decode(payload)
        call == [host |-> host, src |-> src, payload |-> d.value]
    IN  IF d.exc # "none" THEN [calls |-> <<>>, cb_error |-> FALSE, exc |-> d.exc]
        ELSE IF ~ m.on_recv
        THEN [calls |-> <<>>, cb_error |-> FALSE, exc |-> "TypeError"]
        ELSE [calls |-> <<call>>, cb_error |-> FALSE,
              exc |-> IF m.cb_raises THEN "Exception" ELSE "none"]

\* the DATA branch of _irq: the payload is decoded unless raw data was asked
\* for and the callback is awaited, all inside try/except Exception, which
\* logs "Mesh receive error in callback".  [calls: the invocations of the
\* callback, cb_error: the error was logged, exc: what leaves the handler]
recv_callback(m, host, src, payload) ==
    LET d == IF m.raw
             THEN [exc |-> "none", value |-> [type |-> "bytes", data |-> payload]]
             ELSE decode(payload)
        call == [host |-> host, src |-> src, payload |-> d.value]
    IN  IF d.exc # "none" \/ ~ m.on_recv
        THEN [calls |-> <<>>, cb_error |-> TRUE, exc |-> "none"]
        ELSE [calls |-> <<call>>, cb_error |-> m.cb_raises, exc |-> "none"]

\* _irq without the test for frames of the node itself
irq_no_self_check(m, e, own_mac, host, msg) ==
    LET p == parse_packet(msg)
        quiet(r) == [m |-> r.m, e |-> r.e, out |-> r.out, exc |-> r.exc,
                     calls |-> <<>>, cb_error |-> FALSE]
    IN  IF p.kind = "raise" THEN quiet(Err(m, e, <<>>, p.exc))
        \* None cannot be unpacked into the nine fields
        ELSE IF p.kind = "invalid" THEN quiet(Err(m, e, <<>>, "TypeError"))
        ELSE LET id == node_id(m, own_mac)
             IN  IF id.exc # "none" THEN quiet(Err(m, e, <<>>, id.exc))
                 ELSE LET reg == device_registry(id.m, host, p.src, p.version, p.seq,
                                                 BitAnd(p.flags, MESH_FLAG_GATEWAY) # 0)
                      IN  IF reg.exc # "none" THEN quiet(Err(reg.m, e, <<>>, reg.exc))
                          ELSE IF p.ptype = MESH_TYPE_HELLO
                                  /\ BitAnd(p.flags, MESH_FLAG_ACK) # 0
                          THEN quiet(async_hello_ack(reg.m, e, own_mac, host))
                          ELSE IF p.ptype = MESH_TYPE_DATA
                          THEN LET c == recv_callback(reg.m, host, p.src, p.payload)
                               IN  [m |-> reg.m, e |-> e, out |-> <<>>,
                                    exc |-> c.exc, calls |-> c.calls,
                                    cb_error |-> c.cb_error]
                          ELSE quiet(Ok(reg.m, e, <<>>))

\* _irq(host, msg): [m, e, out, exc, calls, cb_error]; calls are the callback
\* invocations made, cb_error says that an error was logged for the callback
irq(m, e, own_mac, host, msg) ==
    LET p == parse_packet(msg)
        quiet(r) == [m |-> r.m, e |-> r.e, out |-> r.out, exc |-> r.exc,
                     calls |-> <<>>, cb_error |-> FALSE]
    IN  IF p.kind = "raise" THEN quiet(Err(m, e, <<>>, p.exc))
        \* None cannot be unpacked into the nine fields
        ELSE IF p.kind = "invalid" THEN quiet(Err(m, e, <<>>, "TypeError"))
        ELSE LET id == node_id(m, own_mac)
             IN  IF id.exc # "none" THEN quiet(Err(m, e, <<>>, id.exc))
                 ELSE IF p.src = id.ret THEN quiet(Ok(id.m, e, <<>>))
                 ELSE LET reg == device_registry(id.m, host, p.src, p.version, p.seq,
                                                 BitAnd(p.flags, MESH_FLAG_GATEWAY) # 0)
                      IN  IF reg.exc # "none" THEN quiet(Err(reg.m, e, <<>>, reg.exc))
                          ELSE IF p.ptype = MESH_TYPE_HELLO
                                  /\ BitAnd(p.flags, MESH_FLAG_ACK) # 0
                          THEN quiet(async_hello_ack(reg.m, e, own_mac, host))
                          ELSE IF p.ptype = MESH_TYPE_DATA
                          THEN LET c == recv_callback(reg.m, host, p.src, p.payload)
                               IN  [m |-> reg.m, e |-> e, out |-> <<>>,
                                    exc |-> c.exc, calls |-> c.calls,
                                    cb_error |-> c.cb_error]
                          ELSE quiet(Ok(reg.m, e, <<>>))

(***************************************************************************)
(* root/Root.py: class Root, the scheduler.  A Root is the record of the   *)
(* fields sleep() reads, for a scheduler without timed tasks (optimize()   *)
(* then leaves dynamic_sleep False); slept is the sleep its last sleep()   *)
(* took and nsleeps the number of sleep() calls.                           *)
(***************************************************************************)
\* self._min_sleep_time, in ms; the cooperative sleep of sleep_interval,
\* 0.1 s, takes as long
min_sleep_time == 100

Root(mesh_enabled, power_monitor) ==
    [mesh |-> mesh_enabled, power_monitor |-> power_monitor,
     dynamic_sleep |-> FALSE, slept |-> "none", nsleeps |-> 0]

\* sleep() that does not ask the mesh
sleep_unasked(r, m, now) ==
    [r EXCEPT !.slept = IF r.power_monitor THEN "lightsleep" ELSE "async_sleep",
              !.nsleeps = r.nsleeps + 1]

\* sleep(), called when time.ticks_ms() is now; m is the session mesh() returns
sleep(r, m, now) ==
    IF r.mesh /\ rx_expected(m, now)
    THEN [r EXCEPT !.slept = "async_sleep", !.nsleeps = r.nsleeps + 1]
    ELSE IF r.power_monitor
    THEN [r EXCEPT !.slept = "lightsleep", !.nsleeps = r.nsleeps + 1]
    ELSE [r EXCEPT !.slept = "async_sleep", !.nsleeps = r.nsleeps + 1]

(***************************************************************************)
(* root/bus.py: class PubSub and the module's helper functions.  A topic   *)
(* or pattern is the sequence of its levels ("a/b" is <<"a", "b">>); a     *)
(* subscription is [id, pattern, cb, buffered, buf]: cb is the name of the *)
(* callback or "None", buffered tells whether buf is a RingBuffer or None. *)
(* calls lists the callback invocations made.                              *)
(***************************************************************************)
NoBusCall == [op |-> "none", topic |-> <<>>, msg |-> <<>>, exc |-> "none"]

PubSub == [subs |-> <<>>, next |-> 1, calls |-> <<>>, nops |-> 0, last |-> NoBusCall]

NoBuf == RingBuffer(0, FALSE)

\* subscribe(pattern, cb, buf_size): [bus, sub_id, buffered, buf]
subscribe(b, pattern, cb, buf_size) ==
    LET buffered == buf_size > 0
        buf == IF buffered THEN RingBuffer(buf_size, FALSE) ELSE NoBuf
    IN  [bus |-> [b EXCEPT !.subs = Append(b.subs,
                                           [id |-> b.next, pattern |-> pattern,
                                            cb |-> cb, buffered |-> buffered,
                                            buf |-> buf]),
                           !.next = b.next + 1],
         sub_id |-> b.next, buffered |-> buffered, buf |-> buf]

\* the argument of unsubscribe that is not given (None)
NotGiven == [given |-> FALSE]
Given(v) == [given |-> TRUE, v |-> v]

\* unsubscribe(_id, topic, cb): the subscriptions that stay
RECURSIVE Kept(_, _, _, _)
Kept(subs, id, topic, cb) ==
    IF subs = <<>> THEN <<>>
    ELSE LET sub == Head(subs)
             rest == Kept(Tail(subs), id, topic, cb)
         IN  IF id.given /\ sub.id = id.v THEN rest
             ELSE IF topic.given /\ sub.pattern = topic.v
                                 /\ (~ cb.given \/ sub.cb = cb.v) THEN rest
             ELSE IF cb.given /\ sub.cb = cb.v /\ ~ topic.given /\ ~ id.given
             THEN rest
             ELSE <<sub>> \o rest

unsubscribe(b, id, topic, cb) == [b EXCEPT !.subs = Kept(b.subs, id, topic, cb)]

\* _match(pat, topic): MQTT-style matching, level by level from level i
RECURSIVE MatchFrom(_, _, _)
MatchFrom(ps, ts, i) ==
    IF i > Len(ps) THEN Len(ps) = Len(ts)
    ELSE IF ps[i] = "#" THEN TRUE
    ELSE IF i > Len(ts) THEN FALSE
    ELSE IF ps[i] \notin {ts[i], "+"} THEN FALSE
    ELSE MatchFrom(ps, ts, i + 1)

match(pat, topic) == MatchFrom(pat, topic, 1)

\* `if buf:` is the truth value of the buffer: None is false, and a
\* RingBuffer, which defines __len__, is true when it holds an item
Truth(sub) == sub.buffered /\ sub.buf.count > 0

\* publish(topic, msg): the loop over the subscriptions, from the k-th on;
\* an IndexError of buf.put leaves the loop and publish
RECURSIVE PublishFrom(_, _, _, _)
PublishFrom(b, k, topic, msg) ==
    IF k > Len(b.subs) THEN [bus |-> b, exc |-> "none"]
    ELSE LET sub == b.subs[k]
         IN  IF ~ match(sub.pattern, topic) THEN PublishFrom(b, k + 1, topic, msg)
             ELSE LET r == IF Truth(sub) THEN put(sub.buf, <<topic, msg>>)
                           ELSE Done(sub.buf)
                      b1 == [b EXCEPT !.subs[k].buf = r.rb]
                      b2 == IF sub.cb # "None"
                            THEN [b1 EXCEPT !.calls = Append(b1.calls, <<sub.id, topic, msg>>)]
                            ELSE b1
                  IN  IF r.exc # "none" THEN [bus |-> b1, exc |-> r.exc]
                      ELSE PublishFrom(b2, k + 1, topic, msg)

publish(b, topic, msg) == PublishFrom(b, 1, topic, msg)

\* the module's helpers on the global instance
emit(b, topic, msg) == publish(b, topic, msg)

off(b, topic, cb, id) == unsubscribe(b, id, topic, cb)

manual(b, topic, buf_size) == subscribe(b, topic, "None", buf_size)

(***************************************************************************)
(* The nodes, their hardware addresses, and a device X outside the model   *)
(* whose frames reach the nodes.                                           *)
(***************************************************************************)
Nodes == {"A", "B"}

MacOf == [n \in Nodes |-> IF n = "A" THEN <<2, 0, 0, 0, 0, 1>> ELSE <<2, 0, 0, 0, 1, 2>>]
MacX == <<2, 0, 0, 0, 0, 3>>

NoAppCall ==
    [node |-> "none", op |-> "none", exc |-> "none", peer |-> [kind |-> "none"]]

NoFrame == [host |-> <<>>, msg |-> <<>>, err |-> "none"]

\* no rx_enable call yet, the board's tick counter at 0
NoClock == [ticks |-> 0, open |-> FALSE, listen |-> NoListen, age |-> 0]

\* a scheduler with mesh and power monitoring off, and the bus as constructed
SysIdle ==
    /\ root = [n \in Nodes |-> Root(FALSE, FALSE)]
    /\ bus = PubSub

MeshStart ==
    /\ mesh = [n \in Nodes |-> Mesh]
    /\ esp = [n \in Nodes |-> NoEsp]
    /\ pc = [n \in Nodes |-> "init"]
    /\ sent = [n \in Nodes |-> <<>>]
    /\ delivered = [n \in Nodes |-> <<>>]
    /\ rxlast = [n \in Nodes |-> NoFrame]
    /\ last = NoAppCall
    /\ ncalls = 0
    /\ ninject = 0
    /\ clock = [n \in Nodes |-> NoClock]
    /\ SysIdle

MeshIdle == MeshStart

(***************************************************************************)
(* The three parts are checked by a specification each; a specification    *)
(* keeps the other parts in the states below.                              *)
(***************************************************************************)
NoResult == [kind |-> "none"]

NoCall == [op |-> "none", item |-> None, index |-> 0, exc |-> "none", ret |-> None]

RingIdle ==
    /\ ring = RingBuffer(1, FALSE)
    /\ ring_ops = 0
    /\ ring_last = NoCall

CodecIdle ==
    /\ c_args = [ptype |-> 0, src |-> 0, dst |-> 0, seq |-> 0, ttl |-> 0,
                 flags |-> 0, payload |-> <<>>]
    /\ c_frame = <<>>
    /\ c_built = FALSE
    /\ c_ncorrupt = 0
    /\ c_res = NoResult

(***************************************************************************)
(* Packet codec under test: build_packet, a frame altered on the air, and  *)
(* parse_packet.                                                           *)
(***************************************************************************)
MaxCorrupt == 1

Payload(L) == [i \in 1..L |-> (i * 7) % 256]

CodecPayloadLens == {0, 2, 239}

CodecArgs ==
    [ptype : {0, MESH_TYPE_DATA, 255},
     src : {0, 4660, 65535},
     dst : {1, BROADCAST_ADDR},
     seq : {0, 256, 65535},
     ttl : {0, 255},
     flags : {0, 133},
     payload : {Payload(L) : L \in CodecPayloadLens}]

CodecInit ==
    /\ c_args \in CodecArgs
    /\ c_frame = <<>>
    /\ c_built = FALSE
    /\ c_ncorrupt = 0
    /\ c_res = NoResult
    /\ RingIdle
    /\ MeshIdle

\* the application builds the frame from c_args
CodecBuild ==
    /\ c_frame = <<>> /\ ~ c_built /\ c_ncorrupt = 0
    /\ LET b == build_packet(c_args.ptype, c_args.src, c_args.dst, c_args.seq,
                             c_args.ttl, c_args.flags, c_args.payload)
       IN  /\ b.kind = "bytes"
           /\ c_frame' = b.data
    /\ c_built' = TRUE
    /\ c_res' = NoResult
    /\ UNCHANGED <<c_args, c_ncorrupt>>
    /\ UNCHANGED <<ringVars, meshVars, sysVars>>

Altered(f) ==
    /\ c_ncorrupt < MaxCorrupt
    /\ c_frame # <<>>
    /\ c_frame' = f
    /\ c_built' = FALSE
    /\ c_ncorrupt' = c_ncorrupt + 1
    /\ c_res' = NoResult
    /\ UNCHANGED c_args
    /\ UNCHANGED <<ringVars, meshVars, sysVars>>

\* the link flips one bit of one byte
CodecFlipBit ==
    \E p \in {1, 3, 11, 12, 13}, b \in {1, 128} :
        /\ p <= Len(c_frame)
        /\ Altered([c_frame EXCEPT ![p] = BitXor(c_frame[p], b)])

\* the link delivers only the first k bytes
CodecTruncate ==
    \E k \in {0, 1, 5, 11, 12, Len(c_frame) - 1} :
        /\ 0 <= k /\ k < Len(c_frame)
        /\ Altered(Slice(c_frame, 0, k))

\* the link delivers a frame with a byte too many
CodecExtend ==
    Altered(Append(c_frame, 0))

\* a truncated frame whose last byte is the checksum of the bytes before it
CodecShort ==
    \E k \in {0, 1, 10} :
        Altered(append_crc8_to_bytearray(Slice(c_frame, 0, k)))

\* a sender with another protocol version or a wrong length field: the
\* header's checksum is right, the field is not
CodecForeignHeader ==
    \E v \in {0, MESH_VERSION, 2}, d \in {0, 1} :
        /\ Len(c_frame) >= BASE_HEADER_SIZE_NO_CRC + 1
        /\ <<v, d>> # <<MESH_VERSION, 0>>
        /\ LET h == SubSeq(c_frame, 1, BASE_HEADER_SIZE_NO_CRC)
               h2 == [h EXCEPT ![1] = v, ![11] = (h[11] + d) % 256]
           IN  Altered(append_crc8_to_bytearray(h2)
                       \o Slice(c_frame, BASE_HEADER_SIZE_NO_CRC + 1, Len(c_frame)))

\* the receiver parses the frame
CodecParse ==
    /\ c_built \/ c_ncorrupt > 0
    /\ c_res = NoResult
    /\ c_res' = parse_packet(c_frame)
    /\ UNCHANGED <<c_args, c_frame, c_built, c_ncorrupt>>
    /\ UNCHANGED <<ringVars, meshVars, sysVars>>

CodecNext ==
    \/ CodecBuild
    \/ CodecFlipBit
    \/ CodecTruncate
    \/ CodecExtend
    \/ CodecShort
    \/ CodecForeignHeader
    \/ CodecParse

SpecCodec == CodecInit /\ [][CodecNext]_vars

(***************************************************************************)
(* RingBuffer under test: one buffer of any capacity up to MaxCap, built   *)
(* with or without overwrite, and any sequence of up to MaxRingOps calls.  *)
(* The k-th call that stores items stores fresh ones, so all items are     *)
(* distinct.                                                               *)
(***************************************************************************)
MaxCap == 3
MaxRingOps == 6

RingInit ==
    /\ \E capacity \in 1..MaxCap, overwrite \in BOOLEAN :
           ring = RingBuffer(capacity, overwrite)
    /\ ring_ops = 0
    /\ ring_last = NoCall
    /\ CodecIdle
    /\ MeshIdle

\* the items a call stores: fresh ones, numbered (Fresh2 is the second item
\* of put_list / extend)
Fresh == <<2 * ring_ops + 1>>
Fresh2 == <<2 * ring_ops + 2>>

Called(op, item, index, r) ==
    /\ ring_ops < MaxRingOps
    /\ ring' = r.rb
    /\ ring_ops' = ring_ops + 1
    /\ ring_last' = [op |-> op, item |-> item, index |-> index,
                   exc |-> r.exc, ret |-> r.ret]
    /\ UNCHANGED <<codecVars, meshVars, sysVars>>

RingPut == Called("put", Fresh, 0, put(ring, Fresh))

RingPutIndex ==
    \E index \in -1..(MaxCap + 1) :
        Called("put_index", Fresh, index, put_index(ring, index, Fresh))

RingPutList == Called("put_list", Fresh, 0, put_list(ring, <<Fresh, Fresh2>>))

RingExtend == Called("extend", Fresh, 0, extend(ring, <<Fresh, Fresh2>>))

RingGet == Called("get", None, 0, get(ring))

RingClearIndex ==
    \E index \in -1..(MaxCap + 1) :
        Called("clear_index", None, index, clear_index(ring, index))

RingClear ==
    \E keep_memory \in BOOLEAN :
        Called("clear", None, 0, clear(ring, keep_memory))

RingNext ==
    \/ RingPut
    \/ RingPutIndex
    \/ RingPutList
    \/ RingExtend
    \/ RingGet
    \/ RingClearIndex
    \/ RingClear

SpecRing == RingInit /\ [][RingNext]_vars

(***************************************************************************)
(* The mesh: two nodes, each with a Mesh session, its application and its  *)
(* receive_task, a radio link that delivers every frame to the active      *)
(* transports it is addressed to, and frames arriving from outside.        *)
(*                                                                         *)
(* The applications follow the scenarios of the design: node A discovers   *)
(* and sends (start, hello, send_data, and it may stop its session), node  *)
(* B listens and answers (callback, rx_disable, hello_ack) and is the node *)
(* in reach of device X.  Both run the same Mesh code, and both can open   *)
(* their receive window.                                                   *)
(***************************************************************************)
Stoppers == {"A"}
Senders == {"A"}
Listeners == {"B"}

MaxCalls == 2
MaxInject == 1
MaxInbox == 2

DataPayloads == {<<104, 105>>}

\* the peers a node's application names: another node, by id or by address
PeerArgs(n) ==
    {[kind |-> "id", id |-> node_id_of(MacOf[r])] : r \in Nodes \ {n}}
        \cup {[kind |-> "mac", mac |-> MacOf[r]] : r \in Nodes \ {n}}

\* the entry list of a session has an entry for node id n
HasEntry(m, n) ==
    \E k \in 1..m.neighbors.count : to_list(m.neighbors)[k][1] = n

\* what the transport of node r holds after the frames in out, sent by
\* sender, went over the link
RECURSIVE Receive(_, _, _, _)
Receive(e, r, sender, out) ==
    IF out = <<>> THEN e
    ELSE LET f == Head(out)
             e1 == IF /\ e.active
                      /\ f.addr \in {BROADCAST_ADDR_MAC, MacOf[r]}
                      /\ Len(e.rxq) < MaxInbox
                   THEN [e EXCEPT !.rxq = Append(e.rxq, <<MacOf[sender], f.packet>>)]
                   ELSE e
         IN  Receive(e1, r, sender, Tail(out))

\* node n ends a call in session m2 and transport e2, having sent out
Apply(n, m2, e2, out) ==
    /\ mesh' = [mesh EXCEPT ![n] = m2]
    /\ esp' = [r \in Nodes |-> IF r = n THEN e2 ELSE Receive(esp[r], r, n, out)]
    /\ sent' = [sent EXCEPT ![n] = sent[n] \o out]
    /\ UNCHANGED <<codecVars, ringVars, sysVars>>

\* a call of the application that can send; last records the call and the
\* exception it raised
AppCall(n, op, peer, r) ==
    /\ ncalls < MaxCalls
    /\ ncalls' = ncalls + 1
    /\ Apply(n, r.m, r.e, r.out)
    /\ last' = [node |-> n, op |-> op, exc |-> r.exc, peer |-> peer]
    /\ UNCHANGED <<pc, delivered, rxlast, ninject, clock>>

Quiet(n, r) ==
    /\ Apply(n, r.m, r.e, <<>>)
    /\ UNCHANGED <<pc, delivered, rxlast, last, ncalls, ninject, clock>>

Start(n) == Quiet(n, start(mesh[n], esp[n], MacOf[n]))

Stop(n) == Quiet(n, stop(mesh[n], esp[n]))

RxEnable(n) ==
    Quiet(n, rx_enable(mesh[n], esp[n], MacOf[n], NoListen, clock[n].ticks))

RxDisable(n) == Quiet(n, [m |-> rx_disable(mesh[n]), e |-> esp[n]])

\* callback(fn, raw)
Callback(n) ==
    \E raw \in BOOLEAN :
        Quiet(n, [m |-> [mesh[n] EXCEPT !.raw = raw, !.on_recv = TRUE,
                                        !.cb_raises = FALSE],
                  e |-> esp[n]])

\* callback(fn, raw) with a function fn that raises an Exception when called
CallbackRaising(n) ==
    \E raw \in BOOLEAN :
        Quiet(n, [m |-> [mesh[n] EXCEPT !.raw = raw, !.on_recv = TRUE,
                                        !.cb_raises = TRUE],
                  e |-> esp[n]])

Hello(n) ==
    AppCall(n, "hello", [kind |-> "none"], hello(mesh[n], esp[n], MacOf[n]))

HelloAck(n) ==
    \E r \in Nodes \ {n} :
        AppCall(n, "hello_ack", [kind |-> "mac", mac |-> MacOf[r]],
                hello_ack(mesh[n], esp[n], MacOf[n], MacOf[r]))

SendData(n) ==
    \E peer \in PeerArgs(n), payload \in DataPayloads :
        AppCall(n, "send_data", peer,
                send_data(mesh[n], esp[n], MacOf[n], peer, payload))

\* receive_task: self.start() before the loop
TaskStart(n) ==
    /\ pc[n] = "init"
    /\ pc' = [pc EXCEPT ![n] = "top"]
    /\ LET r == start(mesh[n], esp[n], MacOf[n]) IN Apply(n, r.m, r.e, <<>>)
    /\ UNCHANGED <<delivered, rxlast, last, ncalls, ninject, clock>>

\* receive_task without the test at the top of its loop
TaskCheck_untested(n) ==
    /\ pc[n] = "top"
    /\ pc' = [pc EXCEPT ![n] = "airecv"]
    /\ UNCHANGED <<mesh, esp, sent, delivered, rxlast, last, ncalls, ninject, clock>>
    /\ UNCHANGED <<codecVars, ringVars, sysVars>>

\* receive_task: the test at the top of the loop; sleep and test again while
\* receiving is not enabled, else go on to await a frame
TaskCheck(n) ==
    /\ pc[n] = "top"
    /\ pc' = [pc EXCEPT ![n] = IF mesh[n].rx_enabled THEN "airecv" ELSE "top"]
    /\ UNCHANGED <<mesh, esp, sent, delivered, rxlast, last, ncalls, ninject, clock>>
    /\ UNCHANGED <<codecVars, ringVars, sysVars>>

\* receive_task handing to _irq the frame that arrived last, ahead of the
\* frames that have waited longer
TaskRecv_overtaking(n) ==
    /\ pc[n] = "airecv"
    /\ esp[n].active
    /\ esp[n].rxq # <<>>
    /\ LET host == esp[n].rxq[Len(esp[n].rxq)][1]
           msg == esp[n].rxq[Len(esp[n].rxq)][2]
           e1 == [esp[n] EXCEPT !.rxq = SubSeq(esp[n].rxq, 1, Len(esp[n].rxq) - 1)]
           r == IF host # <<>> /\ msg # <<>>
                THEN irq(mesh[n], e1, MacOf[n], host, msg)
                ELSE [m |-> mesh[n], e |-> e1, out |-> <<>>, exc |-> "none",
                      calls |-> <<>>, cb_error |-> FALSE]
       IN  /\ Apply(n, r.m, r.e, r.out)
           /\ delivered' = [delivered EXCEPT ![n] = delivered[n] \o r.calls]
           /\ rxlast' = [rxlast EXCEPT ![n] =
                             [host |-> host, msg |-> msg,
                              err |-> IF r.exc # "none" THEN "mesh rx error"
                                      ELSE IF r.cb_error
                                           THEN "Mesh receive error in callback"
                                           ELSE "none"]]
    /\ pc' = [pc EXCEPT ![n] = "top"]
    /\ UNCHANGED <<last, ncalls, ninject, clock>>

\* receive_task: airecv returns a frame and _irq handles it; whatever _irq
\* raises is logged as "mesh rx error"
TaskRecv(n) ==
    /\ pc[n] = "airecv"
    /\ esp[n].active
    /\ esp[n].rxq # <<>>
    /\ LET host == Head(esp[n].rxq)[1]
           msg == Head(esp[n].rxq)[2]
           e1 == [esp[n] EXCEPT !.rxq = Tail(esp[n].rxq)]
           r == IF host # <<>> /\ msg # <<>>
                THEN irq(mesh[n], e1, MacOf[n], host, msg)
                ELSE [m |-> mesh[n], e |-> e1, out |-> <<>>, exc |-> "none",
                      calls |-> <<>>, cb_error |-> FALSE]
       IN  /\ Apply(n, r.m, r.e, r.out)
           /\ delivered' = [delivered EXCEPT ![n] = delivered[n] \o r.calls]
           /\ rxlast' = [rxlast EXCEPT ![n] =
                             [host |-> host, msg |-> msg,
                              err |-> IF r.exc # "none" THEN "mesh rx error"
                                      ELSE IF r.cb_error
                                           THEN "Mesh receive error in callback"
                                           ELSE "none"]]
    /\ pc' = [pc EXCEPT ![n] = "top"]
    /\ UNCHANGED <<last, ncalls, ninject, clock>>

\* receive_task: airecv on a deactivated transport raises; the error is
\* logged and the loop starts over
TaskRecvInactive(n) ==
    /\ pc[n] = "airecv"
    /\ ~ esp[n].active
    /\ pc' = [pc EXCEPT ![n] = "top"]
    /\ UNCHANGED <<mesh, esp, sent, delivered, rxlast, last, ncalls, ninject, clock>>
    /\ UNCHANGED <<codecVars, ringVars, sysVars>>

\* frames device X, or noise on the link, can make node n receive
FrameOf(b) == b.data

InjectFrames(n) ==
    LET idx == node_id_of(MacX)
        me == node_id_of(MacOf[n])
        helloX == FrameOf(build_packet(MESH_TYPE_HELLO, idx, BROADCAST_ADDR, 7, 1,
                                       BitOr(MESH_FLAG_BCAST, MESH_FLAG_ACK), <<>>))
        dataX == FrameOf(build_packet(MESH_TYPE_DATA, idx, me, 8, 1,
                                      MESH_FLAG_UNICAST, <<111, 107>>))
    IN  {helloX,
         dataX,
         \* dataX with another checksum byte
         [dataX EXCEPT ![BASE_HEADER_SIZE_NO_CRC + 1] =
                           (dataX[BASE_HEADER_SIZE_NO_CRC + 1] + 1) % 256],
         \* a single byte, the checksum of no bytes
         <<0>>}

\* a frame from outside arrives while the receive_task waits for one
Inject(n) ==
    /\ ninject < MaxInject
    /\ esp[n].active
    /\ pc[n] = "airecv"
    /\ esp[n].rxq = <<>>
    /\ \E f \in InjectFrames(n) :
           esp' = [esp EXCEPT ![n].rxq = Append(esp[n].rxq, <<MacX, f>>)]
    /\ ninject' = ninject + 1
    /\ UNCHANGED <<mesh, pc, sent, delivered, rxlast, last, ncalls, clock>>
    /\ UNCHANGED <<codecVars, ringVars, sysVars>>

MeshInit ==
    /\ MeshStart
    /\ CodecIdle
    /\ RingIdle

Next ==
    \/ \E n \in Senders : Start(n)
    \/ \E n \in Stoppers : Stop(n)
    \/ \E n \in Nodes : RxEnable(n)
    \/ \E n \in Listeners : RxDisable(n)
    \/ \E n \in Listeners : Callback(n)
    \/ \E n \in Senders : Hello(n)
    \/ \E n \in Listeners : HelloAck(n)
    \/ \E n \in Senders : SendData(n)
    \/ \E n \in Nodes : TaskStart(n)
    \/ \E n \in Nodes : TaskCheck(n)
    \/ \E n \in Nodes : TaskRecv(n)
    \/ \E n \in Nodes : TaskRecvInactive(n)
    \/ \E n \in Listeners : Inject(n)

Spec == MeshInit /\ [][Next]_vars

(***************************************************************************)
(* The handshake scenario: the nodes open their receive windows, A calls   *)
(* hello(), nobody stops or disables.  asyncio schedules every             *)
(* receive_task again and again: a task that can take a step takes one.    *)
(***************************************************************************)
HandshakeNext ==
    \/ \E n \in Nodes : RxEnable(n)
    \/ \E n \in Senders : Hello(n)
    \/ \E n \in Nodes : TaskStart(n)
    \/ \E n \in Nodes : TaskCheck(n)
    \/ \E n \in Nodes : TaskRecv(n)

\* the steps of the receive_task of node n are the steps that move its pc:
\* start() done, the window found open, a frame taken and handled
TaskTurn(n) ==
    \/ /\ pc[n] = "init"
       /\ pc' = [pc EXCEPT ![n] = "top"]
    \/ /\ pc[n] = "top" /\ mesh[n].rx_enabled
       /\ pc' = [pc EXCEPT ![n] = "airecv"]
    \/ /\ pc[n] = "airecv" /\ esp[n].active /\ esp[n].rxq # <<>>
       /\ pc' = [pc EXCEPT ![n] = "top"]

SpecHandshake ==
    /\ MeshInit
    /\ [][HandshakeNext]_vars
    /\ \A n \in Nodes : WF_pc(TaskTurn(n))

(***************************************************************************)
(* Long messages: A sends payloads that need more than one frame, B has    *)
(* its transport up and takes what the link delivers.                      *)
(***************************************************************************)
LongPayloads ==
    {[k \in 1..(MAX_PAYLOAD_SIZE + 1) |-> 97],
     [k \in 1..(2 * MAX_PAYLOAD_SIZE + 1) |-> 98]}

SendLong(n) ==
    \E peer \in PeerArgs(n), payload \in LongPayloads :
        AppCall(n, "send_data", peer,
                send_data(mesh[n], esp[n], MacOf[n], peer, payload))

SendNext ==
    \/ \E n \in Senders : Start(n)
    \/ \E n \in Stoppers : Stop(n)
    \/ \E n \in Listeners : RxEnable(n)
    \/ \E n \in Listeners : RxDisable(n)
    \/ \E n \in Senders : Hello(n)
    \/ \E n \in Senders : SendData(n)
    \/ \E n \in Senders : SendLong(n)

SpecSend == MeshInit /\ [][SendNext]_vars

(***************************************************************************)
(* chunk_packet under test: payloads below, at and above the single-frame  *)
(* sizes (MAX_PAYLOAD_SIZE and the 239 bytes of the design), exact         *)
(* multiples of them, and 3.5 times them.                                  *)
(***************************************************************************)
ChunkArgs ==
    [ptype : {MESH_TYPE_DATA, MESH_TYPE_HELLO_ACK},
     src : {258},
     dst : {1},
     seq : {0, 65535},
     ttl : {1},
     flags : {0, BitOr(MESH_FLAG_UNICAST, MESH_FLAG_UNSECURE)},
     payload : {Payload(L) : L \in {0, 1, 237, 238, 239, 240, 474, 478,
                                    711, 717, 830, 837}}]

ChunkInit ==
    /\ c_args \in ChunkArgs
    /\ c_frame = <<>>
    /\ c_built = FALSE
    /\ c_ncorrupt = 0
    /\ c_res = NoResult
    /\ RingIdle
    /\ MeshIdle

\* list(chunk_packet(*c_args))
ChunkCall ==
    /\ c_res = NoResult
    /\ c_res' = chunk_packet(c_args.ptype, c_args.src, c_args.dst, c_args.seq,
                             c_args.ttl, c_args.flags, c_args.payload)
    /\ UNCHANGED <<c_args, c_frame, c_built, c_ncorrupt>>
    /\ UNCHANGED <<ringVars, meshVars, sysVars>>

SpecChunk == ChunkInit /\ [][ChunkCall]_vars

(***************************************************************************)
(* The receive path of B under test: A sends DATA frames, frames of X and  *)
(* frames that name B itself as their source arrive, and B's application   *)
(* registers callbacks, among them one that raises.                        *)
(***************************************************************************)

\* a frame whose src is the id of node n reaches n (its own broadcast handed
\* back, or a device whose address ends in the same two bytes)
InjectSelf(n) ==
    /\ ninject < MaxInject
    /\ esp[n].active
    /\ pc[n] = "airecv"
    /\ esp[n].rxq = <<>>
    /\ LET me == node_id_of(MacOf[n])
           helloMe == FrameOf(build_packet(MESH_TYPE_HELLO, me, BROADCAST_ADDR, 7, 1,
                                           BitOr(MESH_FLAG_BCAST, MESH_FLAG_ACK), <<>>))
           dataMe == FrameOf(build_packet(MESH_TYPE_DATA, me, me, 8, 1,
                                          MESH_FLAG_UNICAST, <<111, 107>>))
       IN  \E f \in {helloMe, dataMe} :
               esp' = [esp EXCEPT ![n].rxq = Append(esp[n].rxq, <<MacX, f>>)]
    /\ ninject' = ninject + 1
    /\ UNCHANGED <<mesh, pc, sent, delivered, rxlast, last, ncalls, clock>>
    /\ UNCHANGED <<codecVars, ringVars, sysVars>>

\* a DATA frame of device X whose dst is the id of another node reaches n
\* (X sent it to the broadcast hardware address, or to n's address)
InjectForeign(n) ==
    /\ ninject < MaxInject
    /\ esp[n].active
    /\ pc[n] = "airecv"
    /\ esp[n].rxq = <<>>
    /\ \E r \in Nodes \ {n} :
           LET dataOther == FrameOf(build_packet(MESH_TYPE_DATA, node_id_of(MacX),
                                                 node_id_of(MacOf[r]), 8, 1,
                                                 MESH_FLAG_UNICAST, <<111, 107>>))
           IN  esp' = [esp EXCEPT ![n].rxq = Append(esp[n].rxq, <<MacX, dataOther>>)]
    /\ ninject' = ninject + 1
    /\ UNCHANGED <<mesh, pc, sent, delivered, rxlast, last, ncalls, clock>>
    /\ UNCHANGED <<codecVars, ringVars, sysVars>>

RecvNext ==
    \/ \E n \in Senders : Start(n)
    \/ \E n \in Listeners : RxEnable(n)
    \/ \E n \in Listeners : Callback(n)
    \/ \E n \in Listeners : CallbackRaising(n)
    \/ \E n \in Senders : SendData(n)
    \/ \E n \in Listeners : TaskStart(n)
    \/ \E n \in Listeners : TaskCheck(n)
    \/ \E n \in Listeners : TaskRecv(n)
    \/ \E n \in Listeners : Inject(n)
    \/ \E n \in Listeners : InjectSelf(n)
    \/ \E n \in Listeners : InjectForeign(n)

SpecRecv == MeshInit /\ [][RecvNext]_vars

(***************************************************************************)
(* The receive window of B under test: its application calls start, stop,  *)
(* rx_enable with and without a deadline and rx_disable, time goes by on   *)
(* its board (a millisecond, or half the period of the tick counter), its  *)
(* receive_task runs and frames of X arrive.  The tick counter stands      *)
(* anywhere at the beginning, just before its wrap included.               *)
(***************************************************************************)
MaxWindowSteps == 3

WindowInit ==
    /\ \E t \in {0, TICKS_PERIOD - 2, TICKS_PERIOD - 1} :
           clock = [n \in Nodes |-> [NoClock EXCEPT !.ticks = t]]
    /\ SysIdle
    /\ mesh = [n \in Nodes |-> Mesh]
    /\ esp = [n \in Nodes |-> NoEsp]
    /\ pc = [n \in Nodes |-> "init"]
    /\ sent = [n \in Nodes |-> <<>>]
    /\ delivered = [n \in Nodes |-> <<>>]
    /\ rxlast = [n \in Nodes |-> NoFrame]
    /\ last = NoAppCall
    /\ ncalls = 0
    /\ ninject = 0
    /\ CodecIdle
    /\ RingIdle

\* a call of the application of node n that leaves the session r.m and the
\* transport r.e; listen is the deadline asked for, if the call is rx_enable
WindowCall(n, op, r, listen) ==
    /\ ncalls < MaxWindowSteps
    /\ ncalls' = ncalls + 1
    /\ mesh' = [mesh EXCEPT ![n] = r.m]
    /\ esp' = [esp EXCEPT ![n] = r.e]
    /\ clock' = IF op = "rx_enable"
                THEN [clock EXCEPT ![n].open = TRUE, ![n].listen = listen,
                                   ![n].age = 0]
                ELSE IF op \in {"rx_disable", "stop"}
                THEN [clock EXCEPT ![n].open = FALSE]
                ELSE clock
    /\ last' = [node |-> n, op |-> op, exc |-> "none", peer |-> [kind |-> "none"]]
    /\ UNCHANGED <<pc, sent, delivered, rxlast, ninject>>
    /\ UNCHANGED <<codecVars, ringVars, sysVars>>

StartCall(n) ==
    WindowCall(n, "start", start(mesh[n], esp[n], MacOf[n]), NoListen)

StopCall(n) == WindowCall(n, "stop", stop(mesh[n], esp[n]), NoListen)

RxEnableCall(n) ==
    \E listen \in {NoListen, [given |-> TRUE, ms |-> 1], [given |-> TRUE, ms |-> 2]} :
        WindowCall(n, "rx_enable",
                   rx_enable(mesh[n], esp[n], MacOf[n], listen, clock[n].ticks),
                   listen)

RxDisableCall(n) ==
    WindowCall(n, "rx_disable", [m |-> rx_disable(mesh[n]), e |-> esp[n]], NoListen)

\* time goes by on the board of node n
Elapse(n) ==
    /\ ncalls < MaxWindowSteps
    /\ ncalls' = ncalls + 1
    /\ \E d \in {1, TICKS_PERIOD \div 2} :
           clock' = [clock EXCEPT ![n].ticks = ticks_add(clock[n].ticks, d),
                                  ![n].age = clock[n].age + d]
    /\ UNCHANGED <<mesh, esp, pc, sent, delivered, rxlast, last, ninject>>
    /\ UNCHANGED <<codecVars, ringVars, sysVars>>

WindowNext ==
    \/ \E n \in Listeners : StartCall(n)
    \/ \E n \in Listeners : StopCall(n)
    \/ \E n \in Listeners : RxEnableCall(n)
    \/ \E n \in Listeners : RxDisableCall(n)
    \/ \E n \in Listeners : Elapse(n)
    \/ \E n \in Listeners : TaskStart(n)
    \/ \E n \in Listeners : TaskCheck(n)
    \/ \E n \in Listeners : TaskRecv(n)
    \/ \E n \in Listeners : TaskRecvInactive(n)
    \/ \E n \in Listeners : Inject(n)

SpecWindow == WindowInit /\ [][WindowNext]_vars

(***************************************************************************)
(* The scheduler's sleep under test: a Root with the mesh and the power    *)
(* monitoring each enabled or not, on the board of B, whose application    *)
(* opens and closes the receive window while time goes by and the main     *)
(* loop ends its iterations with sleep().                                  *)
(***************************************************************************)
SleepInit ==
    /\ \E t \in {0, TICKS_PERIOD - 2, TICKS_PERIOD - 1} :
           clock = [n \in Nodes |-> [NoClock EXCEPT !.ticks = t]]
    /\ \E mesh_enabled \in BOOLEAN, power_monitor \in BOOLEAN :
           root = [n \in Nodes |-> Root(mesh_enabled, power_monitor)]
    /\ bus = PubSub
    /\ mesh = [n \in Nodes |-> Mesh]
    /\ esp = [n \in Nodes |-> NoEsp]
    /\ pc = [n \in Nodes |-> "init"]
    /\ sent = [n \in Nodes |-> <<>>]
    /\ delivered = [n \in Nodes |-> <<>>]
    /\ rxlast = [n \in Nodes |-> NoFrame]
    /\ last = NoAppCall
    /\ ncalls = 0
    /\ ninject = 0
    /\ CodecIdle
    /\ RingIdle

\* loop(): the iteration of the main loop of the board of node n ends with
\* await self.sleep()
RootSleep(n) ==
    /\ ncalls < MaxWindowSteps
    /\ ncalls' = ncalls + 1
    /\ root' = [root EXCEPT ![n] = sleep(root[n], mesh[n], clock[n].ticks)]
    /\ clock' = [clock EXCEPT ![n].ticks = ticks_add(clock[n].ticks, min_sleep_time),
                              ![n].age = clock[n].age + min_sleep_time]
    /\ UNCHANGED <<mesh, esp, pc, sent, delivered, rxlast, last, ninject, bus>>
    /\ UNCHANGED <<codecVars, ringVars>>

SleepNext ==
    \/ \E n \in Listeners : StartCall(n)
    \/ \E n \in Listeners : StopCall(n)
    \/ \E n \in Listeners : RxEnableCall(n)
    \/ \E n \in Listeners : RxDisableCall(n)
    \/ \E n \in Listeners : Elapse(n)
    \/ \E n \in Listeners : RootSleep(n)

SpecSleep == SleepInit /\ [][SleepNext]_vars

(***************************************************************************)
(* The event bus under test: callers subscribe with a buffer (manual) or   *)
(* with a callback (on), emit messages and unsubscribe by id or by topic,  *)
(* up to MaxBusOps calls.                                                  *)
(***************************************************************************)
MaxBusOps == 4

Topics == {<<"a", "b">>, <<"a", "c">>}
Patterns == {<<"a", "b">>, <<"a", "+">>, <<"#">>}
Messages == {<<1>>, <<2>>}

BusCalled(op, topic, msg, b, exc) ==
    /\ bus.nops < MaxBusOps
    /\ bus' = [b EXCEPT !.nops = bus.nops + 1,
                        !.last = [op |-> op, topic |-> topic, msg |-> msg,
                                  exc |-> exc]]
    /\ UNCHANGED <<codecVars, ringVars, meshVars, root>>

BusManual ==
    \E topic \in Patterns, buf_size \in 1..2 :
        BusCalled("manual", topic, <<>>, manual(bus, topic, buf_size).bus, "none")

BusOn ==
    \E topic \in Patterns :
        BusCalled("on", topic, <<>>, subscribe(bus, topic, "fn", 0).bus, "none")

BusEmit ==
    \E topic \in Topics, msg \in Messages :
        LET r == emit(bus, topic, msg)
        IN  BusCalled("emit", topic, msg, r.bus, r.exc)

BusOff ==
    \/ \E id \in 1..2 :
           BusCalled("off", <<>>, <<>>, off(bus, NotGiven, NotGiven, Given(id)), "none")
    \/ \E topic \in Patterns :
           BusCalled("off", topic, <<>>, off(bus, Given(topic), NotGiven, NotGiven), "none")

BusNext ==
    \/ BusManual
    \/ BusOn
    \/ BusEmit
    \/ BusOff

SpecBus == MeshInit /\ [][BusNext]_vars

(***************************************************************************)
(* The checksum under test: buffers of the sizes of a header (9 bytes in   *)
(* the design, 11 as packed) and smaller ones get their checksum appended, *)
(* and the link flips any one bit of the result.  c_args.payload is the    *)
(* buffer, c_frame the buffer with its checksum.                           *)
(***************************************************************************)
CrcInit ==
    /\ \E buf \in {Payload(L) : L \in {0, 1, 9, 11}}
                    \cup {[k \in 1..L |-> v] : L \in {1, 9, 11}, v \in {0, 255}} :
           c_args = [ptype |-> 0, src |-> 0, dst |-> 0, seq |-> 0, ttl |-> 0,
                     flags |-> 0, payload |-> buf]
    /\ c_frame = <<>>
    /\ c_built = FALSE
    /\ c_ncorrupt = 0
    /\ c_res = NoResult
    /\ RingIdle
    /\ MeshIdle

\* append_crc8_to_bytes(buf), or append_crc8_to_bytearray on a copy of buf
CrcAppend ==
    /\ ~ c_built
    /\ c_frame' \in {append_crc8_to_bytes(c_args.payload),
                     append_crc8_to_bytearray(c_args.payload)}
    /\ c_built' = TRUE
    /\ UNCHANGED <<c_args, c_ncorrupt, c_res>>
    /\ UNCHANGED <<ringVars, meshVars, sysVars>>

\* one bit of one byte of the buffer with its checksum changes on the air
CrcFlip ==
    /\ c_built
    /\ c_ncorrupt < MaxCorrupt
    /\ \E p \in 1..Len(c_frame), b \in {1, 2, 4, 8, 16, 32, 64, 128} :
           c_frame' = [c_frame EXCEPT ![p] = BitXor(c_frame[p], b)]
    /\ c_ncorrupt' = c_ncorrupt + 1
    /\ UNCHANGED <<c_args, c_built, c_res>>
    /\ UNCHANGED <<ringVars, meshVars, sysVars>>

SpecCrc == CrcInit /\ [][CrcAppend \/ CrcFlip]_vars

(***************************************************************************)
(* Messages in order: A sends short and long messages to B, whose receive  *)
(* task hands them to the callback.                                        *)
(***************************************************************************)
OrderNext ==
    \/ \E n \in Senders : Start(n)
    \/ \E n \in Listeners : RxEnable(n)
    \/ \E n \in Listeners : Callback(n)
    \/ \E n \in Senders : SendData(n)
    \/ \E n \in Senders : SendLong(n)
    \/ \E n \in Listeners : TaskStart(n)
    \/ \E n \in Listeners : TaskCheck(n)
    \/ \E n \in Listeners : TaskRecv(n)

SpecOrder == MeshInit /\ [][OrderNext]_vars

(***************************************************************************)
(* The sequence counter under test: sessions whose counter stands anywhere *)
(* in its range, the ends included, and steps of _up_sequence.             *)
(***************************************************************************)
MaxSeqSteps == 3

SeqInit ==
    /\ \E s \in [Nodes -> {0, 1, 65533, 65534, 65535}] :
           mesh = [n \in Nodes |-> [Mesh EXCEPT !.sequence = s[n]]]
    /\ esp = [n \in Nodes |-> NoEsp]
    /\ pc = [n \in Nodes |-> "init"]
    /\ sent = [n \in Nodes |-> <<>>]
    /\ delivered = [n \in Nodes |-> <<>>]
    /\ rxlast = [n \in Nodes |-> NoFrame]
    /\ last = NoAppCall
    /\ ncalls = 0
    /\ ninject = 0
    /\ clock = [n \in Nodes |-> NoClock]
    /\ SysIdle
    /\ CodecIdle
    /\ RingIdle

\* self._up_sequence()
UpSequence(n) ==
    /\ ncalls < MaxSeqSteps
    /\ ncalls' = ncalls + 1
    /\ mesh' = [mesh EXCEPT ![n] = up_sequence(mesh[n])]
    /\ UNCHANGED <<esp, pc, sent, delivered, rxlast, last, ninject, clock>>
    /\ UNCHANGED <<codecVars, ringVars, sysVars>>

SeqNext == \E n \in Nodes : UpSequence(n)

SpecSeq == SeqInit /\ [][SeqNext]_vars

(***************************************************************************)
(* Properties of the packet codec (checked under SpecCodec).               *)
(***************************************************************************)
Parsed == c_res # NoResult

HDR == BASE_HEADER_SIZE_NO_CRC

C4_NeverRaises ==
    c_res.kind # "raise"

(***************************************************************************)
(* The peer cache under test: one session that says hello and sends        *)
(* hello_ack and data frames to the hardware addresses of node B and of    *)
(* device X, more addresses than the cache of MAX_NEIGHBORS holds.         *)
(***************************************************************************)
MaxPeerCalls == 3

\* the hardware addresses the application of node n sends to
PeerMacs(n) == {MacOf[r] : r \in Nodes \ {n}} \cup {MacX}

PeerCall(n, op, peer, r) ==
    /\ ncalls < MaxPeerCalls
    /\ ncalls' = ncalls + 1
    /\ Apply(n, r.m, r.e, r.out)
    /\ last' = [node |-> n, op |-> op, exc |-> r.exc, peer |-> peer]
    /\ UNCHANGED <<pc, delivered, rxlast, ninject, clock>>

PeerHello(n) ==
    PeerCall(n, "hello", [kind |-> "none"], hello(mesh[n], esp[n], MacOf[n]))

PeerHelloAck(n) ==
    \E mac \in PeerMacs(n) :
        PeerCall(n, "hello_ack", [kind |-> "mac", mac |-> mac],
                 hello_ack(mesh[n], esp[n], MacOf[n], mac))

PeerSendData(n) ==
    \E mac \in PeerMacs(n), payload \in DataPayloads :
        PeerCall(n, "send_data", [kind |-> "mac", mac |-> mac],
                 send_data(mesh[n], esp[n], MacOf[n],
                           [kind |-> "mac", mac |-> mac], payload))

PeersNext ==
    \/ \E n \in Senders : Start(n)
    \/ \E n \in Senders : PeerHello(n)
    \/ \E n \in Senders : PeerHelloAck(n)
    \/ \E n \in Senders : PeerSendData(n)

SpecPeers == MeshInit /\ [][PeersNext]_vars

(***************************************************************************)
(* Properties of RingBuffer (checked under SpecRing).                      *)
(***************************************************************************)

\* C9: whatever calls were made, failing ones included, the size is between
\* 0 and the capacity fixed at construction.
C9_SizeBounded ==
    /\ 0 <= ring.count /\ ring.count <= ring.cap
    /\ Len(to_list(ring)) = ring.count
    /\ DOMAIN ring.buf = 0..(ring.cap - 1)

\* a put has just overwritten the oldest item of a full buffer
C9_Witness ==
    /\ ring_last.op = "put" /\ ring_last.exc = "none"
    /\ ring.overwrite /\ ring.count = ring.cap /\ ring_ops > ring.cap

\* C10: a put(x) on a full buffer built with overwrite=True removes exactly
\* the oldest item, keeps the others in order and makes x the newest: the
\* list afterwards is the list before without its first item, followed by x,
\* and the size is still the capacity.
C10_OverwriteOldest ==
    [][(ring_last'.op = "put" /\ ring.overwrite /\ ring.count = ring.cap)
         => /\ to_list(ring') = Tail(to_list(ring)) \o <<ring_last'.item>>
            /\ ring'.count = ring.cap]_vars

(***************************************************************************)
(* Properties of the mesh (checked under Spec, C5 under SpecHandshake).    *)
(***************************************************************************)

\* the node id of node n
IdOf(n) == node_id_of(MacOf[n])

\* the step is the receive_task of node n handing a frame to _irq
Handles(n) ==
    /\ pc[n] = "airecv" /\ pc'[n] = "top"
    /\ esp[n].active
    /\ esp[n].rxq # <<>>
    /\ esp'[n].rxq = Tail(esp[n].rxq)

\* the frame that step handles
Handled(n) == Head(esp[n].rxq)[2]

\* msg is a valid HELLO of node a that asks for an answer
IsHelloOf(msg, a) ==
    LET p == parse_packet(msg)
    IN  /\ p.kind = "packet"
        /\ p.ptype = MESH_TYPE_HELLO
        /\ p.src = IdOf(a)
        /\ BitAnd(p.flags, MESH_FLAG_ACK) # 0

\* node n has handed a HELLO_ACK for node a to its transport
SentHelloAck(n, a) ==
    \E k \in 1..Len(sent[n]) :
        /\ sent[n][k].addr = MacOf[a]
        /\ parse_packet(sent[n][k].packet).kind = "packet"
        /\ parse_packet(sent[n][k].packet).ptype = MESH_TYPE_HELLO_ACK

\* how many entries of the entry list l are for node id i
RECURSIVE CountId(_, _)
CountId(l, i) ==
    IF l = <<>> THEN 0
    ELSE (IF Head(l)[1] = i THEN 1 ELSE 0) + CountId(Tail(l), i)

\* C2: when the receive loop of a started session handles a frame that
\* parse_packet reports invalid, the frame is discarded as a whole: the
\* session (neighbor entries, sequence counter, peer cache) is unchanged, the
\* callback is not invoked, nothing is sent, no error is raised or reported
\* for the frame, and the loop goes on to the next frame.
C2_InvalidDiscarded ==
    [][\A n \in Nodes :
         (Handles(n) /\ mesh[n].started /\ parse_packet(Handled(n)) = Invalid)
           => /\ mesh'[n] = mesh[n]
              /\ delivered'[n] = delivered[n]
              /\ sent'[n] = sent[n]
              /\ rxlast'[n].msg = Handled(n)
              /\ rxlast'[n].err = "none"
              /\ pc'[n] = "top"]_vars

\* C5: handshake. Whenever A has called hello() and the transport has
\* handed the HELLO to B's enabled receive loop, then eventually B's registry
\* has an entry for A and B has sent a HELLO_ACK to A, and A's registry has
\* an entry for B under the id derived from B's hardware address.
C5_Handshake ==
    ( /\ last.node = "A" /\ last.op = "hello" /\ last.exc = "none"
      /\ mesh["A"].started /\ mesh["A"].rx_enabled
      /\ mesh["B"].started /\ mesh["B"].rx_enabled
      /\ \E k \in 1..Len(esp["B"].rxq) :
             /\ esp["B"].rxq[k][1] = MacOf["A"]
             /\ IsHelloOf(esp["B"].rxq[k][2], "A") )
      ~> ( /\ HasEntry(mesh["B"], IdOf("A"))
           /\ SentHelloAck("B", "A")
           /\ HasEntry(mesh["A"], IdOf("B")) )

\* C6: data delivery by node id. If A's registry has an entry for B, both
\* nodes are started and B's receive loop is enabled with a callback
\* registered, then send_data(node id of B, payload) by A raises no error
\* and hands its frames to the transport for B's hardware address.
C6_SendByNodeId ==
    [][( /\ ncalls' = ncalls + 1
         /\ last'.node = "A" /\ last'.op = "send_data"
         /\ last'.peer = [kind |-> "id", id |-> IdOf("B")]
         /\ HasEntry(mesh["A"], IdOf("B"))
         /\ mesh["A"].started
         /\ mesh["B"].started /\ mesh["B"].rx_enabled /\ mesh["B"].on_recv
         /\ pc["B"] # "init" )
         => /\ last'.exc = "none"
            /\ Len(sent'["A"]) > Len(sent["A"])
            /\ \A k \in (Len(sent["A"]) + 1)..Len(sent'["A"]) :
                   sent'["A"][k].addr = MacOf["B"]]_vars

\* C7: in every reachable state a neighbor registry holds at most one entry
\* per node id.
C7_OneEntryPerNode ==
    \A n \in Nodes :
        LET l == to_list(mesh[n].neighbors)
        IN  \A j, k \in 1..Len(l) : l[j][1] = l[k][1] => j = k

\* C8: the registry of a node loses an entry of some node id only in a step
\* in which it held capacity entries and its receive loop handled a valid
\* frame from a src without an entry, and the entry lost is the oldest one.
C8_EvictionOnlyWhenFull ==
    [][\A n \in Nodes :
         LET old == to_list(mesh[n].neighbors)
             new == to_list(mesh'[n].neighbors)
         IN  \A i \in {old[k][1] : k \in 1..Len(old)} :
                 CountId(new, i) < CountId(old, i)
                   => /\ Len(old) = MAX_NEIGHBORS
                      /\ Handles(n)
                      /\ parse_packet(Handled(n)).kind = "packet"
                      /\ ~ HasEntry(mesh[n], parse_packet(Handled(n)).src)
                      /\ old[1][1] = i]_vars

\* C11: send_data(peer, payload) with peer a node id that has no entry in the
\* caller's neighbor registry raises ValueError "Unknown node ID" and hands no
\* frame to the transport.
C11_UnknownNodeId ==
    [][\A n \in Nodes :
         ( /\ ncalls' = ncalls + 1
           /\ last'.node = n /\ last'.op = "send_data"
           /\ last'.peer.kind = "id"
           /\ ~ HasEntry(mesh[n], last'.peer.id) )
           => /\ last'.exc = "ValueError: Unknown node ID"
              /\ sent' = sent
              /\ esp' = esp]_vars

\* a started node was refused a send_data to a node id it has never heard of
C11_Witness ==
    /\ last.op = "send_data" /\ last.peer.kind = "id"
    /\ last.exc = "ValueError: Unknown node ID"
    /\ mesh[last.node].started
    /\ ~ HasEntry(mesh[last.node], last.peer.id)
    /\ sent[last.node] = <<>>

\* C12: whenever the session of a node is not started (never started, or
\* stopped and not started again), a hello(), hello_ack() or send_data() call
\* of that node raises the not-started error (RuntimeError) and hands no
\* frame to the transport.
C12_NotStarted ==
    [][\A n \in Nodes :
         ( /\ ncalls' = ncalls + 1
           /\ last'.node = n
           /\ ~ mesh[n].started )
           => /\ last'.exc = "RuntimeError"
              /\ sent' = sent]_vars

\* C14: the sequence counter is incremented before every message a node
\* originates: a hello(), hello_ack() or send_data() call that hands a frame
\* to the transport has advanced the counter, and so has the receive loop
\* when it answers the HELLO of another node that asks for an answer.
C14_IncrementBeforeMessage ==
    [][\A n \in Nodes :
         /\ sent'[n] # sent[n] => mesh'[n].sequence # mesh[n].sequence
         /\ ( /\ Handles(n) /\ mesh[n].started
              /\ parse_packet(Handled(n)).kind = "packet"
              /\ parse_packet(Handled(n)).ptype = MESH_TYPE_HELLO
              /\ parse_packet(Handled(n)).src # IdOf(n)
              /\ BitAnd(parse_packet(Handled(n)).flags, MESH_FLAG_ACK) # 0 )
              => mesh'[n].sequence = (mesh[n].sequence + 1) % 65536]_vars

\* the frames the step makes node n hand to its transport
NewFrames(n) == SubSeq(sent'[n], Len(sent[n]) + 1, Len(sent'[n]))

\* C15: a send_data() whose payload needs k > 1 frames advances the sequence
\* counter by exactly 1 for the whole message, and all k frames carry the
\* same sequence number.
C15_OneSequencePerMessage ==
    [][\A n \in Nodes :
         ( /\ ncalls' = ncalls + 1
           /\ last'.node = n /\ last'.op = "send_data"
           /\ Len(NewFrames(n)) > 1 )
           => /\ mesh'[n].sequence = (mesh[n].sequence + 1) % 65536
              /\ \A j, k \in 1..Len(NewFrames(n)) :
                     parse_packet(NewFrames(n)[j].packet).seq
                         = parse_packet(NewFrames(n)[k].packet).seq]_vars

(***************************************************************************)
(* Properties of the sequence counter (checked under SpecSeq).             *)
(***************************************************************************)

\* C13: the sequence counter is in 0..65535 in every state, every increment
\* adds exactly 1 modulo 65536, and incrementing from 65535 yields 0.
C13_SequenceWraps ==
    [][\A n \in Nodes :
         /\ mesh[n].sequence \in 0..65535
         /\ mesh'[n].sequence \in 0..65535
         /\ mesh'[n] # mesh[n]
              => /\ mesh'[n].sequence = (mesh[n].sequence + 1) % 65536
                 /\ mesh[n].sequence = 65535 => mesh'[n].sequence = 0]_vars

\* the counters of both nodes have wrapped to 0
C13_Witness ==
    /\ ncalls = MaxSeqSteps
    /\ \A n \in Nodes : mesh[n].sequence = 0

(***************************************************************************)
(* Properties of chunk_packet (checked under SpecChunk).                   *)
(***************************************************************************)

\* the frame series has been asked for
Chunked == c_res.kind = "chunks"

\* frame k of the series, parsed
ChunkFrame(k) == parse_packet(c_res.frames[k])

\* the payloads of the frames k.. of the series, one after the other
RECURSIVE ChunkPayloads(_)
ChunkPayloads(k) ==
    IF k > Len(c_res.frames) THEN <<>>
    ELSE ChunkFrame(k).payload \o ChunkPayloads(k + 1)

\* the chunk markers in the flags fl
Markers(fl) ==
    {mk \in {MESH_FLAG_PARTIAL_START, MESH_FLAG_PARTIAL, MESH_FLAG_PARTIAL_END} :
         BitAnd(fl, mk) # 0}

\* C16: chunk_packet with a payload of 0..239 bytes yields exactly one frame;
\* its flags are the given flags, without a chunk marker, and its payload is
\* the whole payload.
C16_SingleFrame ==
    (Chunked /\ Len(c_args.payload) <= 239)
      => /\ c_res.exc = "none"
         /\ Len(c_res.frames) = 1
         /\ ChunkFrame(1).kind = "packet"
         /\ ChunkFrame(1).flags = c_args.flags
         /\ ChunkFrame(1).payload = c_args.payload

\* C17: chunk_packet with a payload of L > 239 bytes yields exactly
\* ceil(L / 239) frames, and the payloads of the frames in the order yielded
\* make up the payload given.
C17_PiecesMakePayload ==
    (Chunked /\ Len(c_args.payload) > 239)
      => /\ c_res.exc = "none"
         /\ Len(c_res.frames) = (Len(c_args.payload) + 238) \div 239
         /\ \A k \in 1..Len(c_res.frames) : ChunkFrame(k).kind = "packet"
         /\ ChunkPayloads(1) = c_args.payload

\* C18: in the series chunk_packet yields for a payload of more than 239
\* bytes the first frame carries the start marker, the last the end marker,
\* every frame between them the continuation marker, and no frame carries a
\* second marker.
C18_ChunkMarkers ==
    (Chunked /\ Len(c_args.payload) > 239)
      => /\ c_res.exc = "none"
         /\ Len(c_res.frames) >= 2
         /\ \A k \in 1..Len(c_res.frames) :
                /\ ChunkFrame(k).kind = "packet"
                /\ Markers(ChunkFrame(k).flags)
                       = IF k = 1 THEN {MESH_FLAG_PARTIAL_START}
                         ELSE IF k = Len(c_res.frames) THEN {MESH_FLAG_PARTIAL_END}
                         ELSE {MESH_FLAG_PARTIAL}

(***************************************************************************)
(* Properties of the receive path (checked under SpecRecv).                *)
(***************************************************************************)

\* C19: a node never holds an entry for its own node id, and when its receive
\* loop handles a valid frame whose src is its own id the frame is dropped
\* before anything else is done with it: session and registry stay as they
\* are, nothing is sent (no HELLO_ACK), the callback is not invoked and no
\* error is reported.
C19_SelfFrameSuppressed ==
    [][\A n \in Nodes :
         /\ ~ HasEntry(mesh'[n], IdOf(n))
         /\ ( /\ Handles(n) /\ mesh[n].started
              /\ parse_packet(Handled(n)).kind = "packet"
              /\ parse_packet(Handled(n)).src = IdOf(n) )
              => /\ mesh'[n] = mesh[n]
                 /\ sent'[n] = sent[n]
                 /\ delivered'[n] = delivered[n]
                 /\ rxlast'[n].err = "none"
                 /\ pc'[n] = "top"]_vars

\* B, with a callback registered, has handled a DATA frame that names B as
\* its source, after it had registered a neighbor
C19_Witness ==
    /\ rxlast["B"].msg # <<>>
    /\ parse_packet(rxlast["B"].msg).kind = "packet"
    /\ parse_packet(rxlast["B"].msg).ptype = MESH_TYPE_DATA
    /\ parse_packet(rxlast["B"].msg).src = IdOf("B")
    /\ mesh["B"].on_recv
    /\ mesh["B"].neighbors.count = 1
    /\ delivered["B"] # <<>>

\* the step is the receive loop of node n handling a valid DATA frame of
\* another node, with a callback registered that can take the payload
HandlesData(n) ==
    /\ Handles(n) /\ mesh[n].started
    /\ parse_packet(Handled(n)).kind = "packet"
    /\ parse_packet(Handled(n)).ptype = MESH_TYPE_DATA
    /\ parse_packet(Handled(n)).src # IdOf(n)
    /\ mesh[n].on_recv
    /\ mesh[n].raw \/ decode(parse_packet(Handled(n)).payload).exc = "none"

\* C20: when the callback raises while the receive loop handles a DATA
\* frame, the exception does not leave the frame handler (it is logged as a
\* callback error, not as an error of the receive loop), the loop goes on to
\* the next frame, and a valid DATA frame handled after a callback error is
\* handed to the callback like any other.
C20_CallbackIsolation ==
    [][\A n \in Nodes :
         /\ (HandlesData(n) /\ mesh[n].cb_raises)
              => /\ rxlast'[n].err = "Mesh receive error in callback"
                 /\ pc'[n] = "top"
                 /\ mesh'[n].rx_enabled = mesh[n].rx_enabled
         /\ (HandlesData(n) /\ rxlast[n].err = "Mesh receive error in callback")
              => /\ Len(delivered'[n]) = Len(delivered[n]) + 1
                 /\ delivered'[n][Len(delivered'[n])].src
                        = parse_packet(Handled(n)).src
                 /\ delivered'[n][Len(delivered'[n])].payload.data
                        = parse_packet(Handled(n)).payload]_vars

\* the callback of B has raised for one DATA frame and has been called again
\* for the next one, and the receive loop is back at its top
C20_Witness ==
    /\ mesh["B"].cb_raises
    /\ Len(delivered["B"]) = 2
    /\ rxlast["B"].err = "Mesh receive error in callback"
    /\ pc["B"] = "top"

(***************************************************************************)
(* Properties of start(), stop() and the receive window.                   *)
(***************************************************************************)

\* C21: whenever the session of a node is started, the broadcast hardware
\* address is registered as a send target with the node's current transport
\* object.
C21_BroadcastRegistered ==
    \A n \in Nodes :
        mesh[n].started => BROADCAST_ADDR_MAC \in esp[n].peers

\* C22: start() on a started session and stop() on a session that is not
\* started change neither the session (started flag, receive window,
\* registries, sequence counter) nor the transport; so start();start()
\* leaves what start() leaves and stop();stop() what stop() leaves.
C22_Idempotent ==
    [][\A n \in Nodes :
         LET s == start(mesh[n], esp[n], MacOf[n])
             t == stop(mesh[n], esp[n])
         IN  /\ ( /\ ncalls' = ncalls + 1 /\ last'.node = n
                  /\ \/ last'.op = "start" /\ mesh[n].started
                     \/ last'.op = "stop" /\ ~ mesh[n].started )
                  => /\ mesh'[n] = mesh[n]
                     /\ esp'[n] = esp[n]
             /\ start(s.m, s.e, MacOf[n]) = s
             /\ stop(t.m, t.e) = t]_vars

\* start() was called on the session of B while it was started and its
\* receive window open (start() opens no window and stop() closes it)
C22_Witness ==
    /\ last.node = "B" /\ last.op = "start"
    /\ mesh["B"].started /\ mesh["B"].rx_enabled
    /\ BROADCAST_ADDR_MAC \in esp["B"].peers

\* C23: rx_expected() returns true exactly when the window was opened by
\* rx_enable and not closed since by rx_disable or stop, and no deadline was
\* given or the deadline given has not yet elapsed, whatever the value of the
\* tick counter.
C23_RxExpected ==
    \A n \in Nodes :
        rx_expected(mesh[n], clock[n].ticks)
            = ( /\ clock[n].open
                /\ ~ clock[n].listen.given \/ clock[n].age < clock[n].listen.ms )

(***************************************************************************)
(* Properties of the checksum (checked under SpecCrc).                     *)
(***************************************************************************)

\* C24: the buffer with its checksum appended is the buffer plus exactly one
\* byte, crc8 of the buffer, and verify_crc8 accepts it; and verify_crc8
\* accepts a buffer, altered or not, exactly when its last byte is crc8 of
\* the bytes before it.
C24_AppendVerifies ==
    /\ (c_built /\ c_ncorrupt = 0)
         => /\ Len(c_frame) = Len(c_args.payload) + 1
            /\ SubSeq(c_frame, 1, Len(c_args.payload)) = c_args.payload
            /\ c_frame[Len(c_frame)] = crc8(c_args.payload)
            /\ verify_crc8(c_frame)
    /\ c_built
         => verify_crc8(c_frame)
              = (c_frame[Len(c_frame)] = crc8(SubSeq(c_frame, 1, Len(c_frame) - 1)))
    /\ ~ verify_crc8(<<>>)

\* an 11-byte buffer that is not all zero has its checksum appended
C24_Witness ==
    /\ c_built /\ c_ncorrupt = 0
    /\ Len(c_frame) = 12
    /\ c_args.payload = Payload(11)
    /\ verify_crc8(c_frame)

\* C25: when one bit of a buffer that verifies, a header followed by its
\* checksum byte, is flipped, in the header or in the checksum byte,
\* verify_crc8 rejects the result.
C25_SingleBitDetected ==
    (c_built /\ c_ncorrupt = 1) => ~ verify_crc8(c_frame)

\* a bit of the checksum byte of a 9-byte header was flipped
C25_Witness ==
    /\ c_built /\ c_ncorrupt = 1
    /\ Len(c_frame) = 10
    /\ SubSeq(c_frame, 1, 9) = c_args.payload
    /\ c_frame[10] # crc8(c_args.payload)

(***************************************************************************)
(* Properties of the receive loop.                                         *)
(***************************************************************************)

\* the step is the receive loop of node n handling a valid HELLO of another
\* node
HandlesHello(n) ==
    /\ Handles(n) /\ mesh[n].started
    /\ parse_packet(Handled(n)).kind = "packet"
    /\ parse_packet(Handled(n)).ptype = MESH_TYPE_HELLO
    /\ parse_packet(Handled(n)).src # IdOf(n)

\* C26: when the receive loop handles a valid HELLO of another node that
\* asks for an answer, the sender has an entry in the registry afterwards
\* and exactly one frame is handed to the transport: a HELLO_ACK for the
\* sender's hardware address whose dst is the node id derived from that
\* address.  A HELLO that asks for no answer registers the sender and hands
\* no frame to the transport.
C26_HelloAnswered ==
    [][\A n \in Nodes :
         HandlesHello(n) =>
             LET p == parse_packet(Handled(n))
                 host == Head(esp[n].rxq)[1]
                 new == SubSeq(sent'[n], Len(sent[n]) + 1, Len(sent'[n]))
             IN  /\ HasEntry(mesh'[n], p.src)
                 /\ IF BitAnd(p.flags, MESH_FLAG_ACK) # 0
                    THEN /\ Len(new) = 1
                         /\ new[1].addr = host
                         /\ parse_packet(new[1].packet).kind = "packet"
                         /\ parse_packet(new[1].packet).ptype = MESH_TYPE_HELLO_ACK
                         /\ parse_packet(new[1].packet).dst = node_id_of(host)
                    ELSE new = <<>>]_vars

\* C27: the receive task calls the transport's receive only while the
\* receive window is open: whenever it goes from the test at the top of its
\* loop on to await a frame, rx_expected() is true.
C27_ReceiveOnlyWhileOpen ==
    [][\A n \in Nodes :
         (pc[n] = "top" /\ pc'[n] = "airecv")
           => rx_expected(mesh[n], clock[n].ticks)]_vars

\* C28: rx_disable() does not interrupt the receive task, and it lets at
\* most one more frame through: a receive that is pending when the window is
\* closed takes one frame and handles it, which brings the task back to the
\* test at the top of its loop with the window still closed, and from there
\* the task goes on to receive only when the window has been opened again.
C28_DisableAtNextCheck ==
    [][\A n \in Nodes :
         /\ (mesh[n].rx_enabled /\ ~ mesh'[n].rx_enabled) => pc'[n] = pc[n]
         /\ (Handles(n) /\ ~ mesh[n].rx_enabled)
              => pc'[n] = "top" /\ ~ mesh'[n].rx_enabled
         /\ (pc[n] = "top" /\ pc'[n] = "airecv") => mesh[n].rx_enabled]_vars

\* B's application has closed the window while the receive task of B awaits
\* a frame, and a frame is there for it to take
C28_Witness ==
    /\ mesh["B"].started /\ ~ mesh["B"].rx_enabled
    /\ pc["B"] = "airecv"
    /\ esp["B"].active /\ esp["B"].rxq # <<>>

\* the payloads of the DATA frames in the list out of frames handed to a
\* transport for the hardware address mac, in the order handed over
RECURSIVE DataSentTo(_, _)
DataSentTo(out, mac) ==
    IF out = <<>> THEN <<>>
    ELSE LET p == parse_packet(Head(out).packet)
         IN  (IF Head(out).addr = mac /\ p.kind = "packet"
                 /\ p.ptype = MESH_TYPE_DATA
              THEN <<p.payload>> ELSE <<>>) \o DataSentTo(Tail(out), mac)

\* the payloads of the callback invocations in calls that name src
RECURSIVE DataFrom(_, _)
DataFrom(calls, src) ==
    IF calls = <<>> THEN <<>>
    ELSE (IF Head(calls).src = src THEN <<Head(calls).payload.data>> ELSE <<>>)
             \o DataFrom(Tail(calls), src)

\* s is t with some elements left out
RECURSIVE IsSubSeq(_, _)
IsSubSeq(s, t) ==
    IF s = <<>> THEN TRUE
    ELSE IF t = <<>> THEN FALSE
    ELSE IF Head(s) = Head(t) THEN IsSubSeq(Tail(s), Tail(t))
    ELSE IsSubSeq(s, Tail(t))

\* C29: the receive task handles the frames one at a time in the order they
\* arrived: each step takes the frame that has waited longest, handles it
\* to the end (registry, callback) and is back at the top of its loop; so
\* the payloads the callback of a node has been called with for one sender
\* are, in this order, payloads of DATA frames the sender handed to its
\* transport for that node.
C29_ArrivalOrder ==
    [][\A n \in Nodes :
         /\ \A a \in Nodes \ {n} :
                IsSubSeq(DataFrom(delivered'[n], IdOf(a)),
                         DataSentTo(sent'[a], MacOf[n]))
         /\ Handles(n)
              => /\ rxlast'[n].msg = Head(esp[n].rxq)[2]
                 /\ pc'[n] = "top"
         /\ HandlesData(n)
              => /\ Len(delivered'[n]) = Len(delivered[n]) + 1
                 /\ SubSeq(delivered'[n], 1, Len(delivered[n])) = delivered[n]
                 /\ delivered'[n][Len(delivered'[n])].payload.data
                        = parse_packet(Handled(n)).payload]_vars

\* the callback of B has been called with the two pieces of a long message
\* of A, the first piece first
C29_Witness ==
    /\ Len(delivered["B"]) = 2
    /\ delivered["B"][1].src = IdOf("A") /\ delivered["B"][2].src = IdOf("A")
    /\ Len(delivered["B"][1].payload.data) = MAX_PAYLOAD_SIZE
    /\ Len(delivered["B"][2].payload.data) = 1

(***************************************************************************)
(* Properties of the neighbor registry.                                    *)
(***************************************************************************)

\* C30: for every node id the index map of a session records, the index
\* recorded is a logical index of the neighbor registry (0 <= index < size),
\* the entry at that index is the entry of that node id, and looking the
\* node id up returns that entry.
C30_IndexConsistent ==
    \A n \in Nodes :
        \A i \in DOMAIN mesh[n].neighbor_index :
            LET x == mesh[n].neighbor_index[i]
            IN  /\ 0 <= x /\ x < mesh[n].neighbors.count
                /\ peek(mesh[n].neighbors, x).exc = "none"
                /\ peek(mesh[n].neighbors, x).ret[1] = i
                /\ get_neighbour(mesh[n], i).found
                /\ get_neighbour(mesh[n], i).ret[1] = i

(***************************************************************************)
(* Properties of the indexed RingBuffer calls (checked under SpecRing).    *)
(***************************************************************************)

\* the step is a call of op with an index that names a stored item
IndexedCall(op) ==
    /\ ring_ops' = ring_ops + 1
    /\ ring_last'.op = op
    /\ 0 <= ring_last'.index /\ ring_last'.index < ring.count

\* the step is a call of op with an index that names no stored item
OutOfRangeCall(op) ==
    /\ ring_ops' = ring_ops + 1
    /\ ring_last'.op = op
    /\ (ring_last'.index < 0 \/ ring_last'.index >= ring.count)

\* C31: put_index(i, x) with 0 <= i < size replaces exactly the i-th item in
\* oldest-first order by x: it raises nothing, the size, the read and write
\* positions are unchanged, and the list afterwards is the list before with
\* x in place of item i, whether or not the ring has wrapped.
C31_PutIndexReplaces ==
    [][IndexedCall("put_index")
         => /\ ring_last'.exc = "none"
            /\ ring'.count = ring.count
            /\ ring'.head = ring.head /\ ring'.tail = ring.tail
            /\ ring'.cap = ring.cap /\ ring'.overwrite = ring.overwrite
            /\ to_list(ring') = [to_list(ring) EXCEPT
                                    ![ring_last'.index + 1] = ring_last'.item]
            /\ peek(ring', ring_last'.index).ret = ring_last'.item]_vars

\* a put_index has replaced an item whose slot lies beyond the wrap
C31_Witness ==
    /\ ring_last.op = "put_index" /\ ring_last.exc = "none"
    /\ 0 <= ring_last.index /\ ring_last.index < ring.count
    /\ ring.tail + ring_last.index >= ring.cap
    /\ peek(ring, ring_last.index).ret = ring_last.item

\* C32: put_index(i, x) with an index out of bounds (i < 0 or i >= size, the
\* case i = size included) raises IndexError and leaves the buffer as it was:
\* storage, size, positions and the list are unchanged.
C32_PutIndexOutOfRange ==
    [][OutOfRangeCall("put_index")
         => /\ ring_last'.exc = "IndexError"
            /\ ring' = ring
            /\ to_list(ring') = to_list(ring)]_vars

\* the list l without its k-th element
Without(l, k) == SubSeq(l, 1, k - 1) \o SubSeq(l, k + 1, Len(l))

\* C33: clear_index(i) with 0 <= i < size removes exactly the i-th item in
\* oldest-first order: it raises nothing, the size is one less and the list
\* afterwards is the list before with element i deleted, the other items in
\* the same order; with an index out of range it raises IndexError and
\* changes nothing.
C33_ClearIndexRemoves ==
    [][/\ IndexedCall("clear_index")
            => /\ ring_last'.exc = "none"
               /\ ring'.count = ring.count - 1
               /\ to_list(ring') = Without(to_list(ring), ring_last'.index + 1)
       /\ OutOfRangeCall("clear_index")
            => /\ ring_last'.exc = "IndexError"
               /\ ring' = ring]_vars

\* a clear_index has removed an item that was neither the oldest nor the
\* newest, from a ring whose items lie across the wrap
C33_Witness ==
    /\ ring_last.op = "clear_index" /\ ring_last.exc = "none"
    /\ ring_last.index = 1
    /\ ring.count = 2 /\ ring.cap = 3
    /\ ring.tail = 2
    /\ to_list(ring)[1] # None /\ to_list(ring)[2] # None

\* C37: in every state that calls of put, get, put_index, clear_index and
\* clear reach, the write position is (read position + size) mod capacity.
C37_PointerInvariant ==
    ring.head = (ring.tail + ring.count) % ring.cap

\* C37, the consequence: an item stored by put is the one peek_latest()
\* returns and the last element of the list, and peek(0) returns the first
\* element of the list.
C37_PutIsLatest ==
    (ring_last.op = "put" /\ ring_last.exc = "none")
        => /\ peek_latest(ring).ret = ring_last.item
           /\ to_list(ring)[ring.count] = ring_last.item
           /\ peek(ring, 0).ret = to_list(ring)[1]

(***************************************************************************)
(* Properties of the peer cache.                                           *)
(***************************************************************************)

\* the hardware addresses a session can be asked to send to
Addresses == {BROADCAST_ADDR_MAC, MacX} \cup {MacOf[n] : n \in Nodes}

\* C34: within one started session _add registers an address with the
\* transport at most once: a step of a started session that calls add_peer
\* for an address (the address enters the peer cache) is a step before which
\* the transport did not hold that address.
C34_AddPeerOnce ==
    [][\A n \in Nodes : \A mac \in Addresses :
          (/\ mesh[n].started /\ mesh'[n].started
           /\ ~ Contains(mesh[n].peers, mac)
           /\ Contains(mesh'[n].peers, mac))
              => mac \notin esp[n].peers]_vars

(***************************************************************************)
(* Properties of the scheduler (checked under SpecSleep).                  *)
(***************************************************************************)

\* the step is a call of sleep() on the board of node n
Sleeps(n) == root'[n].nsleeps = root[n].nsleeps + 1

\* C35: a sleep() called while the mesh is enabled and rx_expected() is true
\* takes only the short cooperative sleep, and a sleep() that calls
\* lightsleep is one called with the mesh disabled or rx_expected() false.
C35_NoLightSleepWhileExpected ==
    [][\A n \in Nodes :
          Sleeps(n)
              => /\ (root[n].mesh /\ rx_expected(mesh[n], clock[n].ticks))
                        => root'[n].slept = "async_sleep"
                 /\ root'[n].slept = "lightsleep"
                        => (~ root[n].mesh
                               \/ ~ rx_expected(mesh[n], clock[n].ticks))]_vars

\* a scheduler with power monitoring has taken the cooperative sleep: the
\* mesh is enabled and the receive window was open, without a deadline, when
\* sleep() was called
C35_Witness ==
    \E n \in Nodes :
        /\ root[n].mesh /\ root[n].power_monitor
        /\ root[n].nsleeps > 0 /\ root[n].slept = "async_sleep"
        /\ clock[n].open /\ ~ clock[n].listen.given
        /\ rx_expected(mesh[n], clock[n].ticks)

(***************************************************************************)
(* Properties of the event bus (checked under SpecBus).                    *)
(***************************************************************************)

\* C36: every emit on a topic that matches the pattern of a subscription
\* made by manual appends (topic, msg) to the buffer of that subscription,
\* the first message, emitted while the buffer is still empty, included.
C36_BufferedSubscription ==
    [][(bus'.nops = bus.nops + 1 /\ bus'.last.op = "emit")
         => \A k \in 1..Len(bus.subs) :
                (bus.subs[k].buffered
                     /\ match(bus.subs[k].pattern, bus'.last.topic))
                    => /\ Len(bus'.subs) = Len(bus.subs)
                       /\ to_list(bus'.subs[k].buf)
                              = Append(to_list(bus.subs[k].buf),
                                       <<bus'.last.topic, bus'.last.msg>>)]_vars

(***************************************************************************)
(* Properties of failing and filtered calls of the mesh (checked under     *)
(* Spec).                                                                  *)
(***************************************************************************)

\* C38: a hello, hello_ack or send_data call that raises the not-started
\* error, or a send_data call that raises the unknown-destination error,
\* leaves the session as it was: the sequence counter, the neighbor registry
\* with its index map and the peer cache have the values they had before.
C38_FailedSendNoEffect ==
    [][\A n \in Nodes :
          (/\ ncalls' = ncalls + 1
           /\ last'.node = n
           /\ last'.exc \in {"RuntimeError", "ValueError: Unknown node ID"})
              => /\ mesh'[n].sequence = mesh[n].sequence
                 /\ mesh'[n].neighbors = mesh[n].neighbors
                 /\ mesh'[n].neighbor_index = mesh[n].neighbor_index
                 /\ mesh'[n].peers = mesh[n].peers]_vars

\* C39: a valid DATA frame whose dst is neither the id of the node that
\* handles it nor the broadcast address is not handed to the application
\* callback of that node.
C39_DestinationFiltered ==
    [][\A n \in Nodes :
          (/\ Handles(n)
           /\ parse_packet(Handled(n)).kind = "packet"
           /\ parse_packet(Handled(n)).ptype = MESH_TYPE_DATA
           /\ parse_packet(Handled(n)).dst \notin {IdOf(n), BROADCAST_ADDR})
              => delivered'[n] = delivered[n]]_vars

(***************************************************************************)
(* Properties of the frames handed to the transport (checked under         *)
(* SpecSend).                                                              *)
(***************************************************************************)

\* C40: every frame a session has handed to its transport has a payload of
\* at most 239 bytes, a plen field equal to the length of that payload, and
\* a total length of at most 250 bytes, the transport's maximum frame size.
C40_FrameFits ==
    \A n \in Nodes : \A k \in 1..Len(sent[n]) :
        LET f == sent[n][k].packet
            payload == Slice(f, BASE_HEADER_SIZE_NO_CRC + 1, Len(f))
        IN  /\ Len(f) >= BASE_HEADER_SIZE_NO_CRC + 1
            /\ Len(payload) <= 239
            /\ f[BASE_HEADER_SIZE_NO_CRC] = Len(payload)
            /\ parse_packet(f).kind = "packet"
            /\ parse_packet(f).plen = Len(parse_packet(f).payload)
            /\ Len(f) <= ESPNOW_MAX_PAYLOAD_SIZE

\* a send_data of a payload of more than twice MAX_PAYLOAD_SIZE bytes has
\* handed its three frames to the transport, the first with a payload of
\* MAX_PAYLOAD_SIZE bytes, next to a HELLO without payload
C40_Witness ==
    \E n \in Nodes :
        /\ \E k \in 1..Len(sent[n]) :
               /\ parse_packet(sent[n][k].packet).ptype = MESH_TYPE_DATA
               /\ parse_packet(sent[n][k].packet).plen = MAX_PAYLOAD_SIZE
               /\ k + 2 <= Len(sent[n])
               /\ parse_packet(sent[n][k + 2].packet).plen = 1
        /\ \E k \in 1..Len(sent[n]) :
               /\ parse_packet(sent[n][k].packet).ptype = MESH_TYPE_HELLO
               /\ parse_packet(sent[n][k].packet).plen = 0

====
